---- MODULE Spec2Model ----
(***************************************************************************)
(* Model of picca's P1D post-processing (py/picca/pk1d/postproc_pk1d.py):  *)
(* read_pk1d, compute_mean_pk1d, fill_average_pk_redshift, compute_cov and *)
(* run_postproc_pk1d.                                                      *)
(*                                                                         *)
(* Units.  Redshifts are integers in units of 1e-5, wavenumbers in units   *)
(* of 0.01, signal-to-noise ratios in units of 0.01.  Power values are     *)
(* integers.  Every derived statistic is an exact rational number          *)
(* [nan, num, den]; the floating point NaN is the record with nan = TRUE.  *)
(* The "error" statistic is represented by its square (the code takes a    *)
(* square root of a non-negative rational as its last step).               *)
(***************************************************************************)
EXTENDS Integers, Sequences, FiniteSets, TLC

\* ------------------------------------------------------------------ bounds
\* Largest number of chunks (HDUs) in a generated input.
MaxChunks == 2
\* number_bootstrap used by the modelled runs (the program's default is 50).
NumBootstrap == 2

\* ------------------------------------------------------- program constants
\* compute_mean_pk1d(..., number_worker=8): the value run_postproc_pk1d gets.
DefaultNumberWorker == 8
\* snr_limit of the 'simple_snr' weights.
snr_limit == 4
\* factor of the noisy-chunk rejection in read_pk1d.
NoiseFactor == 1000000
\* one unit of signal-to-noise ratio, in model units (0.01).
SnrOne == 100

\* ---------------------------------------------------------------- numbers
Abs(x) == IF x < 0 THEN -x ELSE x

RECURSIVE GCD(_, _)
GCD(a, b) == IF b = 0 THEN a ELSE GCD(b, a % b)

NaN == [nan |-> TRUE, num |-> 0, den |-> 1]

\* The rational n/d in lowest terms; x/0 is NaN (0/0 is the only division by
\* zero the modelled code can evaluate).
Rat(n, d) ==
    IF d = 0 THEN NaN
    ELSE LET g == GCD(Abs(n), Abs(d))
             s == IF d < 0 THEN -1 ELSE 1
         IN [nan |-> FALSE, num |-> (s * n) \div g, den |-> (s * d) \div g]

RInt(n) == [nan |-> FALSE, num |-> n, den |-> 1]

RAdd(a, b) ==
    IF a.nan \/ b.nan THEN NaN
    ELSE Rat(a.num * b.den + b.num * a.den, a.den * b.den)

RSub(a, b) ==
    IF a.nan \/ b.nan THEN NaN
    ELSE Rat(a.num * b.den - b.num * a.den, a.den * b.den)

RMul(a, b) ==
    IF a.nan \/ b.nan THEN NaN ELSE Rat(a.num * b.num, a.den * b.den)

RDiv(a, b) ==
    IF a.nan \/ b.nan THEN NaN ELSE Rat(a.num * b.den, a.den * b.num)

\* ------------------------------------------------------------- sequences
Range(s) == {s[i] : i \in DOMAIN s}

RECURSIVE SumOver(_, _)
\* Sum of f[i] over the finite index set S.
SumOver(f, S) ==
    IF S = {} THEN 0
    ELSE LET i == CHOOSE x \in S : TRUE IN f[i] + SumOver(f, S \ {i})

RECURSIVE RSumOver(_, _)
\* Sum of the rationals f[i] over the finite index set S.
RSumOver(f, S) ==
    IF S = {} THEN RInt(0)
    ELSE LET i == CHOOSE x \in S : TRUE IN RAdd(f[i], RSumOver(f, S \ {i}))

SetMin(S) == CHOOSE x \in S : \A y \in S : x <= y
SetMax(S) == CHOOSE x \in S : \A y \in S : x >= y

RECURSIVE Flatten(_)
\* Concatenation of a sequence of sequences (vstack / np.concatenate).
Flatten(ss) == IF ss = << >> THEN << >> ELSE Head(ss) \o Flatten(Tail(ss))

\* ---------------------------------------------------------------- options
None == [some |-> FALSE, val |-> << >>]
Some(v) == [some |-> TRUE, val |-> v]

\* ------------------------------------------------------------ read_pk1d
\* The columns of a chunk table that the model follows; forest_id and
\* sub_forest_id are attached by read_pk1d.
ChunkCols == {"k", "Pk", "Pk_raw", "Pk_noise", "cor_reso"}

\* The rows of one HDU with the Pk column kept as supplied.
ChunkTableAsSupplied(hdu) ==
    [i \in DOMAIN hdu.rows |->
          [k          |-> hdu.rows[i].k,
           Pk         |-> hdu.rows[i].Pk,
           Pk_nan     |-> hdu.rows[i].Pk_nan,
           Pk_raw     |-> hdu.rows[i].Pk_raw,
           Pk_noise   |-> hdu.rows[i].Pk_noise,
           cor_reso   |-> hdu.rows[i].cor_reso,
           forest_z   |-> hdu.MEANZ,
           forest_snr |-> hdu.MEANSNR,
           forest_id  |-> hdu.LOS_ID,
           sub_forest_id |-> IF hdu.has_chunk_id
                             THEN <<hdu.LOS_ID, hdu.CHUNK_ID>> ELSE << >>]]

\* The rows of one HDU after the Pk column has been derived when it sums
\* to zero (np.nansum leaves the NaN entries out of the sum), with the
\* header values attached as constant columns.  Pk_nan marks a Pk that is
\* NaN.  The generated inputs keep (Pk_raw - Pk_noise) divisible by
\* cor_reso, so the quotient is exact.
ChunkTable(hdu) ==
    LET pksum == SumOver([i \in DOMAIN hdu.rows |->
                             IF hdu.rows[i].Pk_nan THEN 0 ELSE hdu.rows[i].Pk],
                         DOMAIN hdu.rows)
    IN [i \in DOMAIN hdu.rows |->
          [k          |-> hdu.rows[i].k,
           Pk         |-> IF pksum = 0
                          THEN (hdu.rows[i].Pk_raw - hdu.rows[i].Pk_noise)
                                   \div hdu.rows[i].cor_reso
                          ELSE hdu.rows[i].Pk,
           Pk_nan     |-> pksum # 0 /\ hdu.rows[i].Pk_nan,
           Pk_raw     |-> hdu.rows[i].Pk_raw,
           Pk_noise   |-> hdu.rows[i].Pk_noise,
           cor_reso   |-> hdu.rows[i].cor_reso,
           forest_z   |-> hdu.MEANZ,
           forest_snr |-> hdu.MEANSNR,
           forest_id  |-> hdu.LOS_ID,
           sub_forest_id |-> IF hdu.has_chunk_id
                             THEN <<hdu.LOS_ID, hdu.CHUNK_ID>> ELSE << >>]]

\* True when the snrcut arguments make read_pk1d raise its ValueError.
SnrcutMismatch(snrcut, zbins_snrcut) ==
    /\ snrcut.some
    /\ Len(snrcut.val) > 1
    /\ (~zbins_snrcut.some \/ Len(zbins_snrcut.val) # Len(snrcut.val))

\* np.argmin(np.abs(zbins_snrcut - MEANZ)): the first index of the minimum.
ArgminAbs(zbins, z) ==
    CHOOSE i \in DOMAIN zbins :
        /\ \A j \in DOMAIN zbins : Abs(zbins[i] - z) <= Abs(zbins[j] - z)
        /\ \A j \in DOMAIN zbins : Abs(zbins[j] - z) = Abs(zbins[i] - z) => i <= j

\* The threshold applied to one chunk (snrcut is not None, no mismatch).
SnrcutChunk(snrcut, zbins_snrcut, hdu) ==
    IF Len(snrcut.val) > 1
    THEN snrcut.val[ArgminAbs(zbins_snrcut.val, hdu.MEANZ)]
    ELSE snrcut.val[1]

\* The cut with a chunk at the threshold dropped as well.
SnrDroppedAtThreshold(snrcut, zbins_snrcut, hdu) ==
    snrcut.some /\ hdu.MEANSNR <= SnrcutChunk(snrcut, zbins_snrcut, hdu)

\* "continue" at the signal-to-noise cut.
SnrDropped(snrcut, zbins_snrcut, hdu) ==
    snrcut.some /\ hdu.MEANSNR < SnrcutChunk(snrcut, zbins_snrcut, hdu)

\* The removal with the samples of every k taken into account.
NoiseDroppedAnyK(kbin_edges, hdu) ==
    \E i \in DOMAIN hdu.rows :
        hdu.rows[i].Pk_noise > NoiseFactor * hdu.rows[i].Pk_raw

\* "continue" at the empirical removal of very noisy chunks.
NoiseDropped(kbin_edges, hdu) ==
    \E i \in DOMAIN hdu.rows :
        /\ hdu.rows[i].k < kbin_edges[Len(kbin_edges)]
        /\ hdu.rows[i].Pk_noise > NoiseFactor * hdu.rows[i].Pk_raw

ChunkKept(kbin_edges, snrcut, zbins_snrcut, hdu) ==
    /\ ~SnrDropped(snrcut, zbins_snrcut, hdu)
    /\ ~NoiseDropped(kbin_edges, hdu)

RECURSIVE KeptRows(_, _, _, _)
KeptRows(hdus, kbin_edges, snrcut, zbins_snrcut) ==
    IF hdus = << >> THEN << >>
    ELSE (IF ChunkKept(kbin_edges, snrcut, zbins_snrcut, Head(hdus))
          THEN ChunkTable(Head(hdus)) ELSE << >>)
         \o KeptRows(Tail(hdus), kbin_edges, snrcut, zbins_snrcut)

RECURSIVE KeptZ(_, _, _, _)
KeptZ(hdus, kbin_edges, snrcut, zbins_snrcut) ==
    IF hdus = << >> THEN << >>
    ELSE (IF ChunkKept(kbin_edges, snrcut, zbins_snrcut, Head(hdus))
          THEN <<Head(hdus).MEANZ>> ELSE << >>)
         \o KeptZ(Tail(hdus), kbin_edges, snrcut, zbins_snrcut)

\* The exception read_pk1d raises on a file, or "none".  The HDUs are
\* processed in order; for each, chunk_table["Pk"] is read first (a KeyError
\* when the column is absent) and the snrcut arguments are tested next (a
\* ValueError that does not depend on the HDU).
ReadRaises(hdus, snrcut, zbins_snrcut) ==
    IF hdus = << >> THEN "none"
    ELSE IF ~hdus[1].has_pk THEN "KeyError"
    ELSE IF SnrcutMismatch(snrcut, zbins_snrcut) THEN "ValueError"
    ELSE IF \E i \in DOMAIN hdus : ~hdus[i].has_pk THEN "KeyError"
    ELSE "none"

\* read_pk1d on one file (a sequence of HDUs).  The result is an exception
\* (raised), None (none) or the pair (rows, z_array).
read_pk1d(hdus, kbin_edges, snrcut, zbins_snrcut) ==
    IF ReadRaises(hdus, snrcut, zbins_snrcut) # "none"
    THEN [raised |-> ReadRaises(hdus, snrcut, zbins_snrcut), none |-> FALSE,
          rows |-> << >>, z_array |-> << >>, colnames |-> {}]
    ELSE LET z == KeptZ(hdus, kbin_edges, snrcut, zbins_snrcut)
         IN [raised   |-> "none",
             none     |-> (z = << >>),
             rows     |-> KeptRows(hdus, kbin_edges, snrcut, zbins_snrcut),
             z_array  |-> z,
             colnames |-> IF z = << >> THEN {}
                          ELSE ChunkCols \cup {"forest_z", "forest_snr", "forest_id"}
                               \cup (IF \E i \in DOMAIN hdus : hdus[i].has_chunk_id
                                     THEN {"sub_forest_id"} ELSE {})]

\* ------------------------------------------------------------ bin grid
\* The code's indices are 0-based; sequences are 1-based.
Edge(edges, i) == edges[i + 1]
NBins(edges) == Len(edges) - 1

\* np.around(x, 5) of x = twice / 2, in units of 1e-5: round half to even.
Around5(twice) ==
    LET q == twice \div 2
    IN IF twice % 2 = 0 THEN q ELSE IF q % 2 = 0 THEN q ELSE q + 1

\* zbin_centers[izbin]
ZbinCenter(zbin_edges, izbin) ==
    Around5(Edge(zbin_edges, izbin + 1) + Edge(zbin_edges, izbin))

\* scipy's binned_statistic(..., statistic="count", bins=zbin_edges): the
\* bins are half-open [lo, hi), except the last one, which is closed.
NChunks(z_array, zbin_edges, izbin) ==
    Cardinality({c \in DOMAIN z_array :
        /\ Edge(zbin_edges, izbin) <= z_array[c]
        /\ IF izbin = NBins(zbin_edges) - 1
           THEN z_array[c] <= Edge(zbin_edges, izbin + 1)
           ELSE z_array[c] < Edge(zbin_edges, izbin + 1)})

\* ----------------------------------------------- fill_average_pk_redshift
\* The tracked quantities the model follows (p1d_table_cols holds every
\* column but forest_id and sub_forest_id; all are treated alike).
p1d_table_cols == {"k", "Pk"}

\* stats_array
StatsArray(nomedians) ==
    {"mean", "error", "min", "max"} \cup (IF nomedians THEN {} ELSE {"median"})

\* Strict comparisons of the chunk selection: lo < x < hi.
InBin(x, edges, i) == x < Edge(edges, i + 1) /\ x > Edge(edges, i)

\* The selection of the first and last redshift bin, and of an interior
\* one, when apply_z_weights is set.
InZWeightBin(z, zbin_edges, izbin) ==
    IF izbin = 0 \/ izbin = NBins(zbin_edges) - 1
    THEN z > Edge(zbin_edges, izbin) /\ z < Edge(zbin_edges, izbin + 1)
    ELSE /\ z < ZbinCenter(zbin_edges, izbin + 1)
         /\ z > ZbinCenter(zbin_edges, izbin - 1)

\* select: the indices of the rows of cell (izbin, ikbin).
Select(rows, cfg, izbin, ikbin) ==
    {r \in DOMAIN rows :
        /\ InBin(rows[r].k, cfg.kbin_edges, ikbin)
        /\ IF cfg.apply_z_weights
           THEN InZWeightBin(rows[r].forest_z, cfg.zbin_edges, izbin)
           ELSE InBin(rows[r].forest_z, cfg.zbin_edges, izbin)}

\* A mean-table index that forgets the k bin.
CellIndexWithoutK(nbins_k, izbin, ikbin) == nbins_k * izbin

\* A mean-table index with a stride one short of nbins_k.
CellIndexShortStride(nbins_k, izbin, ikbin) == ((nbins_k - 1) * izbin) + ikbin

\* index: the row of cell (izbin, ikbin) in the mean table.
CellIndex(nbins_k, izbin, ikbin) == (nbins_k * izbin) + ikbin

\* delta_z[i] = zbin_centers[i + 1] - zbin_centers[i]
DeltaZ(zbin_edges, i) == ZbinCenter(zbin_edges, i + 1) - ZbinCenter(zbin_edges, i)

\* np.allclose(delta_z, delta_z[0], atol=1.0e-3) with the default
\* rtol = 1e-5: |a - b| <= atol + rtol * |b|.  In units of 1e-5 the left
\* side is an integer, so the bound is 100 + floor(|b| / 100000).
DeltaZAllClose(zbin_edges) ==
    \A i \in 0 .. NBins(zbin_edges) - 2 :
        Abs(DeltaZ(zbin_edges, i) - DeltaZ(zbin_edges, 0))
            <= 100 + (Abs(DeltaZ(zbin_edges, 0)) \div 100000)

\* What the check at the head of the k loop raises under apply_z_weights:
\* delta_z[0] of an empty array is an IndexError.
ZWeightsRaise(cfg) ==
    IF ~cfg.apply_z_weights THEN "none"
    ELSE IF NBins(cfg.zbin_edges) < 2 THEN "IndexError"
    ELSE IF ~DeltaZAllClose(cfg.zbin_edges) THEN "ValueError" ELSE "none"

\* redshift_weights of row r for redshift bin izbin.
RedshiftWeight(rows, cfg, izbin, r) ==
    RSub(RInt(1), Rat(Abs(rows[r].forest_z - ZbinCenter(cfg.zbin_edges, izbin)),
                      DeltaZ(cfg.zbin_edges, 0)))

\* np.average(values, weights=w) over the selection S.
WeightedMean(v, w, S) ==
    RDiv(RSumOver([r \in S |-> RMul(w[r], RInt(v[r]))], S), RSumOver(w, S))

\* np.mean and np.std ** 2 (the population variance) over S.
Mean(v, S) == Rat(SumOver(v, S), Cardinality(S))
Variance(v, S) ==
    RSub(Rat(SumOver([r \in S |-> v[r] * v[r]], S), Cardinality(S)),
         RMul(Mean(v, S), Mean(v, S)))

\* np.median over S: the middle value, or the mean of the two middle ones.
Median(v, S) ==
    LET n == Cardinality(S)
        \* the value of rank i (1-based) in sorted order
        Ranked(i) == CHOOSE x \in {v[r] : r \in S} :
                        /\ Cardinality({r \in S : v[r] < x}) < i
                        /\ Cardinality({r \in S : v[r] <= x}) >= i
    IN IF n % 2 = 1 THEN RInt(Ranked((n + 1) \div 2))
       ELSE Rat(Ranked(n \div 2) + Ranked(n \div 2 + 1), 2)

\* weight_method == "no_weights": <<mean, error ** 2>>.
NoWeights(rows, cfg, izbin, v, S) ==
    IF cfg.apply_z_weights
    THEN LET w == [r \in S |-> RedshiftWeight(rows, cfg, izbin, r)]
         IN <<WeightedMean(v, w, S),
              RDiv(RMul(Variance(v, S), RSumOver([r \in S |-> RMul(w[r], w[r])], S)),
                   RMul(RSumOver(w, S), RSumOver(w, S)))>>
    ELSE <<Mean(v, S), RDiv(Variance(v, S), RInt(Cardinality(S) - 1))>>

\* The test of 'simple_snr' with a strict comparison.
SnrBelowOne(snr) == snr < SnrOne

\* The test that makes 'simple_snr' raise its RuntimeError.
SnrTooLow(snr) == snr <= SnrOne

\* weights of 'simple_snr': (snr - 1) ** 2, fixed to (snr_limit - 1) ** 2
\* above snr_limit.
SimpleSnrWeight(snr) ==
    IF snr > snr_limit * SnrOne
    THEN RInt((snr_limit - 1) * (snr_limit - 1))
    ELSE Rat((snr - SnrOne) * (snr - SnrOne), SnrOne * SnrOne)

\* weight_method == "simple_snr" (no member has snr <= 1): <<mean, error ** 2>>.
SimpleSnr(rows, v, S) ==
    LET w     == [r \in S |-> SimpleSnrWeight(rows[r].forest_snr)]
        mean  == WeightedMean(v, w, S)
        alpha == RSumOver([r \in S |->
                     RMul(w[r], RMul(RSub(RInt(v[r]), mean), RSub(RInt(v[r]), mean)))], S)
    IN <<mean, RDiv(alpha, RMul(RSumOver(w, S), RInt(Cardinality(S) - 1)))>>

\* MEANPK_FITRANGE_SNR, in units of one.
MEANPK_FITRANGE_SNR == <<1, 10>>

\* binned_statistic(data_snr, data_values, statistic="std", bins=snr_bin_edges)
\* leaves NaN in every signal-to-noise bin without a member (the last bin is
\* closed), and curve_fit (check_finite) then raises a ValueError.
FitSnrRaises(rows, S) ==
    \E b \in MEANPK_FITRANGE_SNR[1] .. MEANPK_FITRANGE_SNR[2] - 1 :
        ~\E r \in S :
            /\ b * SnrOne <= rows[r].forest_snr
            /\ IF b = MEANPK_FITRANGE_SNR[2] - 1
               THEN rows[r].forest_snr <= (b + 1) * SnrOne
               ELSE rows[r].forest_snr < (b + 1) * SnrOne

\* The coefficients curve_fit returns (amp, zero_point); the fit itself is
\* outside the model.  With a zero_point of zero the weights of a populated
\* fit, (snr - 1) ** 2, keep the sums within the integers.
CurveFitCoef == <<RInt(1), RInt(0)>>

\* fitfunc_variance_pk1d(snr, amp, zero_point), snr clamped to
\* [1.01, MEANPK_FITRANGE_SNR[1]].
fitfunc_variance_pk1d(snr, coef) ==
    LET c == IF snr > MEANPK_FITRANGE_SNR[2] * SnrOne
             THEN MEANPK_FITRANGE_SNR[2] * SnrOne
             ELSE IF snr < SnrOne + 1 THEN SnrOne + 1 ELSE snr
    IN RAdd(RDiv(coef[1], Rat((c - SnrOne) * (c - SnrOne), SnrOne * SnrOne)), coef[2])

\* weight_method == "fit_snr" (the fit succeeded): <<mean, error ** 2>>.
FitSnr(rows, cfg, izbin, v, S) ==
    LET w0 == [r \in S |->
                 RDiv(RInt(1), fitfunc_variance_pk1d(rows[r].forest_snr, CurveFitCoef))]
        rw == [r \in S |-> RedshiftWeight(rows, cfg, izbin, r)]
        w  == [r \in S |-> IF cfg.apply_z_weights THEN RMul(w0[r], rw[r]) ELSE w0[r]]
    IN <<WeightedMean(v, w, S),
         IF cfg.apply_z_weights
         THEN RDiv(RSumOver([r \in S |-> RMul(w[r], rw[r])], S),
                   RMul(RSumOver(w, S), RSumOver(w, S)))
         ELSE RDiv(RInt(1), RSumOver(w, S))>>

\* The members of a cell whose value in column col is not NaN (of the
\* columns followed, only Pk can hold one).
NotNaN(rows, col, S) ==
    IF col = "Pk" THEN {r \in S : ~rows[r].Pk_nan} ELSE S

\* What the body of the column loop raises for a cell with members S.  With
\* 'fit_snr' the NaN values of a column are masked before the fit; the
\* redshift weights are not, and multiplying the weights by them in place
\* is then a ValueError.
WeightRaise(rows, cfg, S) ==
    IF S = {} THEN "none"
    ELSE IF cfg.weight_method = "fit_snr"
         THEN (IF \E col \in p1d_table_cols :
                     \/ FitSnrRaises(rows, NotNaN(rows, col, S))
                     \/ cfg.apply_z_weights /\ NotNaN(rows, col, S) # S
               THEN "ValueError" ELSE "none")
    ELSE IF cfg.weight_method = "simple_snr"
         THEN (IF \E r \in S : SnrTooLow(rows[r].forest_snr)
               THEN "RuntimeError" ELSE "none")
    ELSE IF cfg.weight_method = "no_weights" THEN "none"
    ELSE "ValueError"

\* The statistics of one column of a cell with members S # {} (nothing
\* raised).  Only 'fit_snr' masks the NaN values, and only for the mean and
\* the error: np.average, np.mean, np.std, np.min, np.max and np.median give
\* NaN when a value is NaN.
ColStats(rows, cfg, izbin, col, S) ==
    LET v   == [r \in S |-> rows[r][col]]
        T   == NotNaN(rows, col, S)
        me  == IF cfg.weight_method = "fit_snr"
               THEN FitSnr(rows, cfg, izbin, [r \in T |-> v[r]], T)
               ELSE IF T # S THEN <<NaN, NaN>>
               ELSE IF cfg.weight_method = "simple_snr" THEN SimpleSnr(rows, v, S)
               ELSE NoWeights(rows, cfg, izbin, v, S)
        all == [mean   |-> me[1],
                error  |-> me[2],
                min    |-> IF T # S THEN NaN ELSE RInt(SetMin({v[r] : r \in S})),
                max    |-> IF T # S THEN NaN ELSE RInt(SetMax({v[r] : r \in S})),
                median |-> IF T # S THEN NaN ELSE Median(v, S)]
    IN [st \in StatsArray(cfg.nomedians) |-> all[st]]

\* The columns of a row of mean_p1d_table as compute_mean_pk1d creates them.
NaNStats(nomedians) ==
    [col \in p1d_table_cols |-> [st \in StatsArray(nomedians) |-> NaN]]

EmptyMeanRow(nomedians) ==
    [zbin |-> 0, index_zbin |-> 0, N |-> 0, stats |-> NaNStats(nomedians)]

\* The row that the k loop writes for cell (izbin, ikbin): zbin, index_zbin
\* and N always, the statistics when the cell has members and nothing is
\* raised (old is the row before the write).
CellRow(rows, cfg, izbin, ikbin, old) ==
    LET S == Select(rows, cfg, izbin, ikbin)
    IN [zbin       |-> ZbinCenter(cfg.zbin_edges, izbin),
        index_zbin |-> izbin,
        N          |-> Cardinality(S),
        stats      |-> IF S = {} \/ WeightRaise(rows, cfg, S) # "none"
                       THEN old.stats
                       ELSE [col \in p1d_table_cols |->
                               ColStats(rows, cfg, izbin, col, S)]]

\* The members of S in bin b of snr_bin_edges (b = 1 .. 9; the last bin is
\* closed).
SnrBin(rows, S, b) ==
    {r \in S :
        /\ b * SnrOne <= rows[r].forest_snr
        /\ IF b = MEANPK_FITRANGE_SNR[2] - 1
           THEN rows[r].forest_snr <= (b + 1) * SnrOne
           ELSE rows[r].forest_snr < (b + 1) * SnrOne}

\* A row of snrfit_table as compute_mean_pk1d creates it (np.zeros): z, k,
\* the two coefficients and the nine binned values.
ZeroSnrfitRow ==
    [z |-> 0, k |-> RInt(0), a |-> RInt(0), b |-> RInt(0),
     standard_dev |-> [b \in MEANPK_FITRANGE_SNR[1] .. MEANPK_FITRANGE_SNR[2] - 1
                         |-> RInt(0)]]

\* The row of snrfit_table that the k loop leaves for cell (izbin, ikbin):
\* written in the turn of column 'Pk' of the column loop, under 'fit_snr'
\* with output_snrfit given, once the fit of the column has succeeded (old
\* is the row before).  standard_dev is kept squared.
SnrfitRow(rows, cfg, izbin, ikbin, old) ==
    LET S == Select(rows, cfg, izbin, ikbin)
        T == NotNaN(rows, "Pk", S)
    IN IF /\ cfg.weight_method = "fit_snr"
          /\ cfg.output_snrfit
          /\ S # {}
          /\ WeightRaise(rows, cfg, S) = "none"
       THEN [z |-> ZbinCenter(cfg.zbin_edges, izbin),
             k |-> Rat(Edge(cfg.kbin_edges, ikbin) + Edge(cfg.kbin_edges, ikbin + 1), 2),
             a |-> CurveFitCoef[1],
             b |-> CurveFitCoef[2],
             standard_dev |->
                 [b \in MEANPK_FITRANGE_SNR[1] .. MEANPK_FITRANGE_SNR[2] - 1 |->
                     Variance([r \in T |-> rows[r].Pk], SnrBin(rows, T, b))]]
       ELSE old

\* ------------------------------------------------------- velocity units
\* conversion_factor = ABSORBER_IGM["LYA"] * (1 + forest_z) / SPEED_LIGHT of
\* a row, counted in units of 0.25 * LYA / SPEED_LIGHT.  The redshifts of
\* the inputs converted are multiples of 0.25, so the value is exact.
ConversionFactor(forest_z) == (100000 + forest_z) \div 25000

\* The unit in which a power is counted once divided by conversion_factor:
\* 780 is the least common multiple of the factors of the redshifts 2.0,
\* 2.25 and 2.75 (12, 13 and 15), which keeps the quotients exact.
VelPowerScale == 780

\* velunits: k is multiplied by the factor of its row and every column
\* with "Pk" in its name is divided by it.
ConvertRow(row) ==
    [row EXCEPT !.k        = @ * ConversionFactor(row.forest_z),
                !.Pk       = (@ * VelPowerScale) \div ConversionFactor(row.forest_z),
                !.Pk_raw   = (@ * VelPowerScale) \div ConversionFactor(row.forest_z),
                !.Pk_noise = (@ * VelPowerScale) \div ConversionFactor(row.forest_z)]

ConvertTable(rows) == [r \in DOMAIN rows |-> ConvertRow(rows[r])]

\* ------------------------------------------------------------ compute_cov
\* k_index of a row: the k bin it lies in (strictly), or -1.
KIndex(k, kbin_edges) ==
    IF \E ikbin \in 0 .. NBins(kbin_edges) - 1 : InBin(k, kbin_edges, ikbin)
    THEN CHOOSE ikbin \in 0 .. NBins(kbin_edges) - 1 : InBin(k, kbin_edges, ikbin)
    ELSE -1

\* select_z of redshift bin izbin, as the set of selected row indices.
SelectZ(rows, zbin_edges, izbin) ==
    {r \in DOMAIN rows : InBin(rows[r].forest_z, zbin_edges, izbin)}

RECURSIVE SortedIds(_)
\* np.unique: the distinct identifiers, in increasing order.
SortedIds(S) ==
    IF S = {} THEN << >>
    ELSE LET m == CHOOSE x \in S : \A y \in S :
                      x[1] < y[1] \/ (x[1] = y[1] /\ x[2] <= y[2])
         IN <<m>> \o SortedIds(S \ {m})

\* sub_forest_ids of redshift bin izbin.
SubForestIds(rows, zbin_edges, izbin) ==
    SortedIds({rows[r].sub_forest_id : r \in SelectZ(rows, zbin_edges, izbin)})

\* The pairs (ipk, ipk2), ipk <= ipk2 in table order, of the rows of one
\* sub-forest that both lie in a k bin, the first in bin a, the second in b.
PairsOf(rows, kbin_edges, select_z, id, a, b) ==
    {pq \in select_z \X select_z :
        /\ rows[pq[1]].sub_forest_id = id
        /\ rows[pq[2]].sub_forest_id = id
        /\ pq[1] <= pq[2]
        /\ KIndex(rows[pq[1]].k, kbin_edges) = a
        /\ KIndex(rows[pq[2]].k, kbin_edges) = b}

\* First loop: covariance_array[nbins_k * a + b] and n_array[nbins_k * a + b]
\* after all sub-forests of the sequence ids have been accumulated.
AccSum(rows, kbin_edges, select_z, ids, a, b) ==
    SumOver([i \in DOMAIN ids |->
               LET P == PairsOf(rows, kbin_edges, select_z, ids[i], a, b)
               IN SumOver([pq \in P |-> rows[pq[1]].Pk * rows[pq[2]].Pk], P)],
            DOMAIN ids)

AccCount(rows, kbin_edges, select_z, ids, a, b) ==
    SumOver([i \in DOMAIN ids |->
               Cardinality(PairsOf(rows, kbin_edges, select_z, ids[i], a, b))],
            DOMAIN ids)

\* A second loop that computes the entries below the diagonal on their own.
CovSourceOwn(ikbin, ikbin2) == <<ikbin, ikbin2>>

\* Second loop: the bins whose accumulated sum and count make entry
\* (ikbin, ikbin2); an entry below the diagonal is a copy of its mirror.
CovSource(ikbin, ikbin2) ==
    IF ikbin <= ikbin2 THEN <<ikbin, ikbin2>> ELSE <<ikbin2, ikbin>>

\* The estimate without the second division by the pair count.
CovEntryDividedOnce(acc, n, mean1, mean2) ==
    RSub(Rat(acc, n), RMul(mean1, mean2))

\* Second loop: the entry made of the accumulated sum acc, the pair count n
\* and the two cell means.
CovEntry(acc, n, mean1, mean2) ==
    RDiv(RSub(Rat(acc, n), RMul(mean1, mean2)), RInt(n))

\* An entry of a bin without chunk left as the arrays are created, with a
\* covariance of zero.
CovEmptyBinAsCreated(zbin_edges, izbin) ==
    [zbin |-> ZbinCenter(zbin_edges, izbin), index_zbin |-> izbin,
     N |-> 0, covariance |-> RInt(0)]

\* The entry that fills the block of a redshift bin without chunk.
CovEmptyBin(zbin_edges, izbin) ==
    [zbin |-> ZbinCenter(zbin_edges, izbin), index_zbin |-> izbin,
     N |-> 0, covariance |-> NaN]

\* compute_cov: the block of redshift bin izbin, indexed 0 .. nbins_k^2 - 1.
compute_cov(rows, mean_table, cfg, n_chunks, izbin, select_z, ids) ==
    LET nbins_k == NBins(cfg.kbin_edges)
    IN [index \in 0 .. nbins_k * nbins_k - 1 |->
         IF n_chunks[izbin] = 0
         THEN CovEmptyBin(cfg.zbin_edges, izbin)
         ELSE LET src   == CovSource(index \div nbins_k, index % nbins_k)
                  n     == AccCount(rows, cfg.kbin_edges, select_z, ids, src[1], src[2])
                  acc   == AccSum(rows, cfg.kbin_edges, select_z, ids, src[1], src[2])
                  mean1 == mean_table[(nbins_k * izbin) + src[1]].stats["Pk"]["mean"]
                  mean2 == mean_table[(nbins_k * izbin) + src[2]].stats["Pk"]["mean"]
              IN [zbin |-> ZbinCenter(cfg.zbin_edges, izbin), index_zbin |-> izbin,
                  N |-> n,
                  covariance |-> CovEntry(acc, n, mean1, mean2)]]

\* A row of cov_table as compute_mean_pk1d creates it.
EmptyCovRow ==
    [zbin |-> 0, index_zbin |-> 0, N |-> 0, covariance |-> RInt(0),
     boot_covariance |-> RInt(0), error_boot_covariance |-> RInt(0)]

\* np.mean(boot_cov, axis=0) and np.std(boot_cov, axis=0) ** 2 of one entry
\* over the results vals (a sequence of rationals).
BootMean(vals) == RDiv(RSumOver(vals, DOMAIN vals), RInt(Len(vals)))
BootVar(vals) ==
    RSub(RDiv(RSumOver([i \in DOMAIN vals |-> RMul(vals[i], vals[i])], DOMAIN vals),
              RInt(Len(vals))),
         RMul(BootMean(vals), BootMean(vals)))

\* ------------------------------------------------------------------ inputs
SampleRow(k, pk, raw, noise, cor) ==
    [k |-> k, Pk |-> pk, Pk_nan |-> FALSE, Pk_raw |-> raw, Pk_noise |-> noise,
     cor_reso |-> cor]

\* k = [0.1, 0.2], Pk_raw = [1, 1], Pk_noise = [0, 0], cor_reso = [1, 1], and
\* a Pk column of zeros, which read_pk1d derives.
RowsExample == <<SampleRow(10, 0, 1, 0, 1), SampleRow(20, 0, 1, 0, 1)>>
\* Rows that are not in increasing order of k.
RowsUnsorted == <<SampleRow(20, 3, 3, 0, 1), SampleRow(10, 1, 1, 0, 1)>>
\* Rows with no sample in the first k bin: one in the second, one with k on
\* the edge that the two bins share.
RowsOnEdge == <<SampleRow(20, 5, 5, 0, 1), SampleRow(15, 2, 2, 0, 1)>>

\* The chunks inputs are made of: mean redshift, mean signal-to-noise, rows.
\* has_pk tells whether the HDU has a Pk (or PK) column.
ChunkMenu ==
    { [MEANZ |-> 225000, MEANSNR |-> 500, has_pk |-> TRUE, rows |-> RowsExample],
      [MEANZ |-> 275000, MEANSNR |-> 500, has_pk |-> TRUE, rows |-> RowsUnsorted],
      [MEANZ |-> 200000, MEANSNR |-> 100, has_pk |-> TRUE, rows |-> RowsExample],
      [MEANZ |-> 225000, MEANSNR |-> 500, has_pk |-> TRUE, rows |-> RowsOnEdge] }

\* A Pk column that is not zero but sums to zero.
RowsCancel == <<SampleRow(10, 2, 5, 0, 1), SampleRow(20, -2, 5, 0, 1)>>
\* Pk_noise just above 1000000 * Pk_raw on a sample below the top k edge.
RowsNoisy == <<SampleRow(10, 1, 1, 0, 1), SampleRow(20, 1, 1, 1000001, 1)>>
\* Pk_noise equal to 1000000 * Pk_raw below the top k edge, and above it
\* only on a sample whose k is the top edge.
RowsNoisyAbove == <<SampleRow(10, 1, 1, 1000000, 1), SampleRow(25, 1, 1, 1000001, 1)>>

\* The chunks that exercise the steps of read_pk1d: a derived Pk, a Pk that
\* sums to zero, no Pk column, and the noise on both sides of the rejection.
IngestMenu ==
    { [MEANZ |-> 225000, MEANSNR |-> 500, has_pk |-> TRUE, rows |-> RowsExample],
      [MEANZ |-> 225000, MEANSNR |-> 500, has_pk |-> TRUE, rows |-> RowsCancel],
      [MEANZ |-> 225000, MEANSNR |-> 500, has_pk |-> FALSE, rows |-> RowsExample],
      [MEANZ |-> 225000, MEANSNR |-> 500, has_pk |-> TRUE, rows |-> RowsNoisy],
      [MEANZ |-> 225000, MEANSNR |-> 500, has_pk |-> TRUE, rows |-> RowsNoisyAbove] }

\* A Pk column with a NaN in the first k bin and a value in the second.
RowsNaN ==
    <<[SampleRow(10, 0, 1, 0, 1) EXCEPT !.Pk_nan = TRUE], SampleRow(20, 2, 2, 0, 1)>>

\* The chunks of the tables with NaN values: one with a NaN, one without,
\* in the same cells.
NaNMenu ==
    { [MEANZ |-> 225000, MEANSNR |-> 500, has_pk |-> TRUE, rows |-> RowsNaN],
      [MEANZ |-> 225000, MEANSNR |-> 500, has_pk |-> TRUE, rows |-> RowsUnsorted] }

NaNLists == UNION {[1 .. n -> NaNMenu] : n \in 1 .. MaxChunks}

IngestLists == UNION {[1 .. n -> IngestMenu] : n \in 1 .. MaxChunks}

\* Three chunks at redshift 2.0 with quality 5 and the example rows.
ExampleChunks ==
    [i \in 1 .. 3 |-> [MEANZ |-> 200000, MEANSNR |-> 500, has_pk |-> TRUE,
                       rows |-> RowsExample]]

ChunkLists ==
    UNION {[1 .. n -> ChunkMenu] : n \in 1 .. MaxChunks} \cup {ExampleChunks}

\* The HDUs of a list of chunks: object 1, chunk identifier = position.
Hdus(chunks, has_chunk_id) ==
    [i \in DOMAIN chunks |->
        [LOS_ID |-> 1, CHUNK_ID |-> i, has_chunk_id |-> has_chunk_id,
         MEANZ |-> chunks[i].MEANZ, MEANSNR |-> chunks[i].MEANSNR,
         has_pk |-> chunks[i].has_pk, rows |-> chunks[i].rows]]

\* Redshift grids: one bin; three bins of equal width; three bins whose
\* centres are not equally spaced.  One wavenumber grid with two bins.
ZGridExample == <<150000, 250000>>
ZGridUniform == <<150000, 200000, 250000, 300000>>
ZGridUneven  == <<150000, 200000, 250000, 350000>>
\* Two bins, each of which holds chunks of the menu.
ZGridTwo     == <<150000, 250000, 300000>>
\* Three bins whose centres are not equally spaced, above every chunk.
ZGridUnevenAbove == <<300000, 350000, 400000, 500000>>
\* Four bins of equal width: two interior bins.
ZGridFour == <<150000, 200000, 250000, 300000, 350000>>
ZGrids == {ZGridExample, ZGridUniform, ZGridUneven, ZGridTwo, ZGridUnevenAbove,
           ZGridFour}
KGrid == <<5, 15, 25>>

WeightMethods == {"no_weights", "simple_snr", "fit_snr", "bogus"}

\* The snrcut / zbins_snrcut arguments tried: none, one threshold (the
\* quality of most chunks), two thresholds without their redshift table, with
\* a table of another length, and with their table.
SnrcutOptions ==
    { <<None, None>>, <<Some(<<500>>), None>>,
      <<Some(<<200, 600>>), None>>,
      <<Some(<<200, 600>>), Some(<<200000>>)>>,
      <<Some(<<200, 600>>), Some(<<200000, 250000>>)>> }

Config(entry, zg, wm, zw, nomed, cov, boot, nw, ncpu, sc, ow) ==
    [entry |-> entry, zbin_edges |-> zg, kbin_edges |-> KGrid,
     weight_method |-> wm, apply_z_weights |-> zw, nomedians |-> nomed,
     compute_covariance |-> cov, compute_bootstrap |-> boot,
     number_bootstrap |-> NumBootstrap, number_worker |-> nw, ncpu |-> ncpu,
     snrcut |-> sc[1], zbins_snrcut |-> sc[2], overwrite |-> ow,
     output_snrfit |-> FALSE, velunits |-> FALSE]

\* ------------------------------------------------------------------- state
VARIABLES
    cfg,             \* the arguments of the call (never changed)
    files,           \* the input files, each a sequence of HDUs
    output_file,     \* "absent", "old" (exists before the run) or "new"
    pc,              \* position of the calling process
    reads,           \* per file: state and result of its read_pk1d task
    p1d_table,       \* [colnames, rows]
    z_array,
    mean_p1d_table,  \* index -> row
    metadata_table,  \* izbin -> row
    cov_table,       \* [some, has_boot, rows]
    do_cov,          \* the locals compute_covariance / compute_bootstrap
    agg,             \* per redshift bin: state of its aggregation task
    output_cov,      \* per task of the covariance pool: its result
    boot_pool,       \* params_pool of the bootstrap: <<izbin, ids>> per task
    output_boot,     \* per task of the bootstrap pool: its result
    error,           \* the exception that ends the run, or "none"
    started,         \* the phases in which a worker task has started
    snrfit_table,    \* index -> row of the table of the fits, or << >> (None)
    snrfit_file      \* the file output_snrfit: [saved, table]

vars == <<cfg, files, output_file, pc, reads, p1d_table, z_array, mean_p1d_table,
          metadata_table, cov_table, do_cov, agg, output_cov, boot_pool,
          output_boot, error, started, snrfit_table, snrfit_file>>

nbins_z == NBins(cfg.zbin_edges)
nbins_k == NBins(cfg.kbin_edges)
n_chunks == [izbin \in DOMAIN metadata_table |-> metadata_table[izbin].N_chunks]

NoCovTable == [some |-> FALSE, has_boot |-> FALSE, rows |-> << >>]

\* The table read_pk1d returns for the HDUs of one file, without a cut.
TableOf(hdus) ==
    LET r == read_pk1d(hdus, KGrid, None, None)
    IN [colnames |-> r.colnames, rows |-> r.rows]

InitCommon(c, hdus, fs, out) ==
    /\ cfg = c
    /\ files = fs
    /\ output_file = out
    /\ pc = IF c.entry = "run_postproc_pk1d" THEN "start" ELSE "compute"
    /\ reads = [f \in DOMAIN fs |-> [st |-> "idle", res |-> << >>]]
    /\ p1d_table = IF c.entry = "run_postproc_pk1d"
                   THEN [colnames |-> {}, rows |-> << >>] ELSE TableOf(hdus)
    /\ z_array = IF c.entry = "run_postproc_pk1d" THEN << >>
                 ELSE [i \in DOMAIN hdus |-> hdus[i].MEANZ]
    /\ mean_p1d_table = << >>
    /\ metadata_table = << >>
    /\ cov_table = NoCovTable
    /\ do_cov = [cov |-> c.compute_covariance, boot |-> c.compute_bootstrap]
    /\ agg = << >>
    /\ output_cov = << >>
    /\ boot_pool = << >>
    /\ output_boot = << >>
    /\ error = "none"
    /\ started = {}
    /\ snrfit_table = << >>
    /\ snrfit_file = [saved |-> FALSE, table |-> << >>]

\* compute_mean_pk1d called on a table read without cut: every weighting
\* method, with and without redshift weights (the uneven grids matter only
\* with them), no covariance.
InitAggregation ==
    \E chunks \in ChunkLists, wm \in WeightMethods, nw \in {1, 2},
       g \in {<<ZGridExample, FALSE>>, <<ZGridUniform, FALSE>>,
              <<ZGridExample, TRUE>>, <<ZGridUniform, TRUE>>, <<ZGridUneven, TRUE>>,
              <<ZGridUnevenAbove, TRUE>>} :
        InitCommon(Config("compute_mean_pk1d", g[1], wm, g[2], FALSE, FALSE, FALSE,
                          nw, DefaultNumberWorker, <<None, None>>, FALSE),
                   Hdus(chunks, TRUE), <<Hdus(chunks, TRUE)>>, "absent")

\* compute_mean_pk1d called on a table with NaN values of Pk, for each
\* weighting, with and without redshift weights.
InitNaN ==
    \E chunks \in NaNLists, wm \in {"no_weights", "simple_snr", "fit_snr"},
       zw \in BOOLEAN :
        InitCommon(Config("compute_mean_pk1d", ZGridExample, wm, zw, FALSE, FALSE,
                          FALSE, 1, DefaultNumberWorker, <<None, None>>, FALSE),
                   Hdus(chunks, TRUE), <<Hdus(chunks, TRUE)>>, "absent")

CovModes == {<<TRUE, FALSE>>, <<FALSE, TRUE>>, <<TRUE, TRUE>>}

\* The inputs of the runs that request a covariance: one chunk or a pair of
\* chunks, so that a redshift bin holds at most two sub-forests and the
\* resamples of the bootstrap stay few.
CovChunkLists == {chunks \in ChunkLists : Len(chunks) <= 2}

\* compute_mean_pk1d with covariance and/or bootstrap requested, in the
\* setting that allows it.
InitCovariance ==
    \E chunks \in CovChunkLists, zg \in {ZGridExample, ZGridUniform, ZGridTwo},
       nw \in {1, 2}, mode \in CovModes :
        InitCommon(Config("compute_mean_pk1d", zg, "no_weights", FALSE, FALSE,
                          mode[1], mode[2], nw, DefaultNumberWorker,
                          <<None, None>>, FALSE),
                   Hdus(chunks, TRUE), <<Hdus(chunks, TRUE)>>, "absent")

\* The same request in each of the three settings that make it skip: no
\* sub_forest_id column, a weighting by signal-to-noise, redshift weights.
InitCovarianceSkipped ==
    \E chunks \in CovChunkLists, mode \in CovModes,
       variant \in {"no_id", "simple_snr", "z_weights"} :
        InitCommon(Config("compute_mean_pk1d", ZGridUniform,
                          IF variant = "simple_snr" THEN "simple_snr" ELSE "no_weights",
                          variant = "z_weights", FALSE, mode[1], mode[2],
                          2, DefaultNumberWorker, <<None, None>>, FALSE),
                   Hdus(chunks, variant # "no_id"),
                   <<Hdus(chunks, variant # "no_id")>>, "absent")

\* The HDUs split over files: all in one file, or one file per HDU.
FileSplits(hdus) ==
    { <<hdus>>, [f \in DOMAIN hdus |-> <<hdus[f]>>] }

\* run_postproc_pk1d without an output file in the way and without a
\* quality cut: a known and an unknown weighting method, and the known one
\* with the covariance; with ncpu = 1 and with its default.  The call of
\* compute_mean_pk1d passes no number_worker, which keeps its default.
InitRun ==
    \E chunks \in ChunkLists, ncpu \in {1, DefaultNumberWorker},
       m \in {<<"no_weights", FALSE>>, <<"no_weights", TRUE>>, <<"bogus", FALSE>>} :
        \E fs \in FileSplits(Hdus(chunks, TRUE)) :
            InitCommon(Config("run_postproc_pk1d", ZGridUniform, m[1], FALSE, FALSE,
                              m[2], FALSE, DefaultNumberWorker, ncpu,
                              <<None, None>>, FALSE),
                       Hdus(chunks, TRUE), fs, "absent")

\* The HDUs in one file, one file per HDU, or one file beside a file that
\* holds no chunk.
CutFileSplits(hdus) ==
    FileSplits(hdus) \cup { <<hdus, << >> >> }

\* run_postproc_pk1d with each of the quality cuts.
InitQualityCut ==
    \E chunks \in ChunkLists, sc \in SnrcutOptions :
        \E fs \in CutFileSplits(Hdus(chunks, TRUE)) :
            InitCommon(Config("run_postproc_pk1d", ZGridExample, "no_weights", FALSE,
                              FALSE, FALSE, FALSE, DefaultNumberWorker,
                              DefaultNumberWorker, sc, FALSE),
                       Hdus(chunks, TRUE), fs, "absent")

\* run_postproc_pk1d on the chunks that exercise read_pk1d, without a cut
\* and with thresholds that lack their redshift table.
InitIngest ==
    \E chunks \in IngestLists,
       sc \in {<<None, None>>, <<Some(<<200, 600>>), None>>} :
        \E fs \in FileSplits(Hdus(chunks, TRUE)) :
            InitCommon(Config("run_postproc_pk1d", ZGridExample, "no_weights", FALSE,
                              FALSE, FALSE, FALSE, DefaultNumberWorker,
                              DefaultNumberWorker, sc, FALSE),
                       Hdus(chunks, TRUE), fs, "absent")

\* run_postproc_pk1d with an output file that exists, kept or overwritten.
InitRunExisting ==
    \E chunks \in ChunkLists, ow \in BOOLEAN :
        \E fs \in FileSplits(Hdus(chunks, TRUE)) :
            InitCommon(Config("run_postproc_pk1d", ZGridUniform, "no_weights", FALSE,
                              TRUE, FALSE, FALSE, DefaultNumberWorker,
                              DefaultNumberWorker, <<None, None>>, ow),
                       Hdus(chunks, TRUE), fs, "old")

\* Nine chunks at redshift 2.25, one in each bin of snr_bin_edges (quality
\* 1.5, 2, 3, ..., 9), so that the fit of 'fit_snr' has a value in every bin.
FitSnrChunks ==
    [i \in 1 .. 9 |->
        [MEANZ |-> 225000, MEANSNR |-> IF i = 1 THEN 150 ELSE i * SnrOne,
         has_pk |-> TRUE, rows |-> IF i = 5 THEN RowsUnsorted ELSE RowsExample]]

\* compute_mean_pk1d with and without output_snrfit, under 'fit_snr' and
\* under 'no_weights', on the nine chunks and on the first eight of them
\* (the last bin of the fit is then empty).
InitFitSnr ==
    \E chunks \in {FitSnrChunks, SubSeq(FitSnrChunks, 1, 8)},
       wm \in {"fit_snr", "no_weights"}, out \in BOOLEAN,
       zg \in {ZGridExample, ZGridTwo}, nw \in {1, 2} :
        InitCommon([Config("compute_mean_pk1d", zg, wm, FALSE, FALSE, FALSE, FALSE,
                           nw, DefaultNumberWorker, <<None, None>>, FALSE)
                       EXCEPT !.output_snrfit = out],
                   Hdus(chunks, TRUE), <<Hdus(chunks, TRUE)>>, "absent")

\* Wavenumber edges for tables in velocity units (in the unit of a
\* converted k).
KGridVel == <<60, 200, 400>>

\* run_postproc_pk1d with velunits: without covariance, with it, and with
\* covariance and bootstrap.
InitVelUnits ==
    \E chunks \in CovChunkLists,
       mode \in {<<FALSE, FALSE>>, <<TRUE, FALSE>>, <<TRUE, TRUE>>} :
        \E fs \in FileSplits(Hdus(chunks, TRUE)) :
            InitCommon([Config("run_postproc_pk1d", ZGridTwo, "no_weights", FALSE,
                               FALSE, mode[1], mode[2], DefaultNumberWorker,
                               DefaultNumberWorker, <<None, None>>, FALSE)
                           EXCEPT !.velunits = TRUE, !.kbin_edges = KGridVel],
                       Hdus(chunks, TRUE), fs, "absent")

\* Chunks between the centres of the bins of ZGridFour, with qualities
\* above 1 that give different 'simple_snr' weights, and different powers.
ZWeightMenu ==
    { [MEANZ |-> 240000, MEANSNR |-> 500, has_pk |-> TRUE, rows |-> RowsUnsorted],
      [MEANZ |-> 260000, MEANSNR |-> 300, has_pk |-> TRUE, rows |-> RowsOnEdge],
      [MEANZ |-> 210000, MEANSNR |-> 200, has_pk |-> TRUE, rows |-> RowsExample] }

ZWeightLists == UNION {[1 .. n -> ZWeightMenu] : n \in 1 .. MaxChunks}

\* compute_mean_pk1d with apply_z_weights on a grid with interior bins,
\* unweighted and with the 'simple_snr' weights.
InitZWeights ==
    \E chunks \in ZWeightLists, wm \in {"no_weights", "simple_snr"}, nw \in {1, 2} :
        InitCommon(Config("compute_mean_pk1d", ZGridFour, wm, TRUE, FALSE, FALSE,
                          FALSE, nw, DefaultNumberWorker, <<None, None>>, FALSE),
                   Hdus(chunks, TRUE), <<Hdus(chunks, TRUE)>>, "absent")

Init ==
    \/ InitFitSnr
    \/ InitZWeights
    \/ InitVelUnits
    \/ InitAggregation
    \/ InitNaN
    \/ InitCovariance
    \/ InitCovarianceSkipped
    \/ InitRun
    \/ InitQualityCut
    \/ InitIngest
    \/ InitRunExisting

\* ------------------------------------------------------ run_postproc_pk1d
\* The head of run_postproc_pk1d without the test on the output file.
CheckOutputIgnoringFile ==
    /\ pc = "start"
    /\ pc' = "ingest"
    /\ UNCHANGED <<cfg, files, snrfit_table, snrfit_file,
                   output_file, reads, p1d_table, z_array,
                   mean_p1d_table, metadata_table, cov_table, do_cov, agg,
                   output_cov, boot_pool, output_boot, error, started>>

\* The test on the output file at the head of run_postproc_pk1d.
CheckOutput ==
    /\ pc = "start"
    /\ IF output_file = "old" /\ ~cfg.overwrite
       THEN pc' = "failed" /\ error' = "RuntimeError"
       ELSE pc' = "ingest" /\ error' = error
    /\ UNCHANGED <<cfg, files, snrfit_table, snrfit_file,
                   output_file, reads, p1d_table, z_array,
                   mean_p1d_table, metadata_table, cov_table, do_cov, agg,
                   output_cov, boot_pool, output_boot, started>>

\* One task of pool.starmap(read_pk1d, ...): a worker process reads file f.
\* The pool hands the files out in order to its ncpu processes.
ReadTask(f) ==
    /\ pc = "ingest"
    /\ reads[f].st = "idle"
    /\ Cardinality({g \in DOMAIN files : g < f /\ reads[g].st # "done"}) < cfg.ncpu
    /\ reads' = [reads EXCEPT ![f] =
                    [st |-> "done",
                     res |-> read_pk1d(files[f], cfg.kbin_edges, cfg.snrcut,
                                       cfg.zbins_snrcut)]]
    /\ started' = started \cup {"ingest"}
    /\ UNCHANGED <<cfg, files, snrfit_table, snrfit_file,
                   output_file, pc, p1d_table, z_array,
                   mean_p1d_table, metadata_table, cov_table, do_cov, agg,
                   output_cov, boot_pool, output_boot, error>>

\* The indices of the files whose read_pk1d returned a table, in order.
RECURSIVE NotNone(_, _)
NotNone(rs, f) ==
    IF f > Len(rs) THEN << >>
    ELSE (IF rs[f].res.none THEN << >> ELSE <<f>>) \o NotNone(rs, f + 1)

\* starmap returns (or re-raises the exception of a task); the results that
\* are not None are stacked.  Stacking an empty list is a ValueError.
MergeIngest ==
    /\ pc = "ingest"
    /\ \A f \in DOMAIN files : reads[f].st = "done"
    /\ LET raisedBy == {f \in DOMAIN files : reads[f].res.raised # "none"}
           kept     == NotNone(reads, 1)
       IN IF raisedBy # {}
          THEN /\ pc' = "failed"
               /\ \E f \in raisedBy : error' = reads[f].res.raised
               /\ UNCHANGED <<p1d_table, z_array>>
          ELSE IF kept = << >>
          THEN /\ pc' = "failed"
               /\ error' = "ValueError"
               /\ UNCHANGED <<p1d_table, z_array>>
          ELSE /\ pc' = "compute"
               /\ error' = error
               /\ p1d_table' =
                    [colnames |-> UNION {reads[kept[i]].res.colnames : i \in DOMAIN kept},
                     rows |-> Flatten([i \in DOMAIN kept |-> reads[kept[i]].res.rows])]
               /\ z_array' = Flatten([i \in DOMAIN kept |-> reads[kept[i]].res.z_array])
    /\ UNCHANGED <<cfg, files, snrfit_table, snrfit_file,
                   output_file, reads, mean_p1d_table, metadata_table,
                   cov_table, do_cov, agg, output_cov, boot_pool, output_boot,
                   started>>

\* ------------------------------------------------------ compute_mean_pk1d
\* The test without the check of the sub_forest_id column.
CovarianceAllowedWithoutId ==
    /\ cfg.weight_method = "no_weights"
    /\ ~cfg.apply_z_weights

\* The test without the checks of the weighting.
CovarianceAllowedWithWeights ==
    "sub_forest_id" \in p1d_table.colnames

\* True when a requested covariance is computed rather than skipped.
CovarianceAllowed ==
    /\ "sub_forest_id" \in p1d_table.colnames
    /\ cfg.weight_method = "no_weights"
    /\ ~cfg.apply_z_weights

\* From the head of compute_mean_pk1d to the start of the main loop: the
\* tables are created, the covariance is kept or skipped, n_chunks counted.
ComputeSetup ==
    /\ pc = "compute"
    /\ p1d_table' = IF cfg.velunits
                    THEN [p1d_table EXCEPT !.rows = ConvertTable(@)]
                    ELSE p1d_table
    /\ snrfit_table' =
          IF cfg.output_snrfit
          THEN [index \in 0 .. nbins_z * nbins_k - 1 |-> ZeroSnrfitRow]
          ELSE << >>
    /\ mean_p1d_table' =
          [index \in 0 .. nbins_z * nbins_k - 1 |-> EmptyMeanRow(cfg.nomedians)]
    /\ metadata_table' =
          [izbin \in 0 .. nbins_z - 1 |->
              [z_min |-> Edge(cfg.zbin_edges, izbin),
               z_max |-> Edge(cfg.zbin_edges, izbin + 1),
               k_min |-> Edge(cfg.kbin_edges, 0),
               k_max |-> Edge(cfg.kbin_edges, nbins_k),
               N_chunks |-> NChunks(z_array, cfg.zbin_edges, izbin)]]
    /\ IF (do_cov.cov \/ do_cov.boot) /\ CovarianceAllowed
       THEN /\ cov_table' =
                 [some |-> TRUE, has_boot |-> do_cov.boot,
                  rows |-> [i \in 0 .. nbins_z * nbins_k * nbins_k - 1 |-> EmptyCovRow]]
            /\ do_cov' = do_cov
       ELSE /\ cov_table' = NoCovTable
            /\ do_cov' = [cov |-> FALSE, boot |-> FALSE]
    /\ agg' = [izbin \in 0 .. nbins_z - 1 |-> [st |-> "idle", ikbin |-> 0]]
    /\ pc' = "aggregate"
    /\ UNCHANGED <<cfg, files, snrfit_file, output_file, reads, z_array,
                   output_cov, boot_pool, output_boot, error, started>>

Synchronous == cfg.number_worker = 1

\* A task of the main loop starts: func(izbin).  The synchronous loop and
\* the pool both take the bins in order; the synchronous loop runs one task
\* at a time and stops at the first exception, the pool runs at most
\* number_worker tasks at a time.
AggStart(izbin) ==
    /\ pc = "aggregate"
    /\ agg[izbin].st = "idle"
    /\ \A j \in DOMAIN agg : j < izbin => agg[j].st # "idle"
    /\ IF Synchronous
       THEN \A j \in DOMAIN agg : j < izbin => agg[j].st = "done"
       ELSE Cardinality({j \in DOMAIN agg : agg[j].st = "running"}) < cfg.number_worker
    /\ agg' = [agg EXCEPT ![izbin].st = "running"]
    /\ started' = started \cup {"aggregate"}
    /\ UNCHANGED <<cfg, files, snrfit_table, snrfit_file,
                   output_file, pc, reads, p1d_table, z_array,
                   mean_p1d_table, metadata_table, cov_table, do_cov, output_cov,
                   boot_pool, output_boot, error>>

\* An early return that leaves the rows of the bin as they were created.
FillEmptyBinSkipped(table, izbin) == table

\* The rows filled for a redshift bin without chunk: zbin and index_zbin of
\* rows i_min .. i_max - 1.
FillEmptyBin(table, izbin) ==
    [index \in DOMAIN table |->
        IF izbin * nbins_k <= index /\ index < (izbin + 1) * nbins_k
        THEN [table[index] EXCEPT !.zbin = ZbinCenter(cfg.zbin_edges, izbin),
                                  !.index_zbin = izbin]
        ELSE table[index]]

\* One step of fill_average_pk_redshift(izbin): the early return of a bin
\* without chunk, or one turn of the k loop.
AggStep(izbin) ==
    /\ pc = "aggregate"
    /\ agg[izbin].st = "running"
    /\ LET ikbin == agg[izbin].ikbin
           index == CellIndex(nbins_k, izbin, ikbin)
           S     == Select(p1d_table.rows, cfg, izbin, ikbin)
           zr    == ZWeightsRaise(cfg)
           wr    == WeightRaise(p1d_table.rows, cfg, S)
       IN IF n_chunks[izbin] = 0
          THEN /\ mean_p1d_table' = FillEmptyBin(mean_p1d_table, izbin)
               /\ snrfit_table' = snrfit_table
               /\ agg' = [agg EXCEPT ![izbin].st = "done"]
               /\ error' = error
          ELSE IF zr # "none"
          THEN /\ mean_p1d_table' = mean_p1d_table
               /\ snrfit_table' = snrfit_table
               /\ agg' = [agg EXCEPT ![izbin].st = "raised"]
               /\ error' = IF error = "none" THEN zr ELSE error
          ELSE /\ mean_p1d_table' =
                    [mean_p1d_table EXCEPT ![index] =
                        CellRow(p1d_table.rows, cfg, izbin, ikbin, mean_p1d_table[index])]
               /\ snrfit_table' =
                    IF cfg.output_snrfit
                    THEN [snrfit_table EXCEPT ![index] =
                            SnrfitRow(p1d_table.rows, cfg, izbin, ikbin,
                                      snrfit_table[index])]
                    ELSE snrfit_table
               /\ IF wr # "none"
                  THEN /\ agg' = [agg EXCEPT ![izbin].st = "raised"]
                       /\ error' = IF error = "none" THEN wr ELSE error
                  ELSE /\ agg' = [agg EXCEPT ![izbin] =
                                    [st |-> IF ikbin + 1 = nbins_k THEN "done"
                                            ELSE "running",
                                     ikbin |-> ikbin + 1]]
                       /\ error' = error
    /\ UNCHANGED <<cfg, files, snrfit_file, output_file, pc, reads, p1d_table,
                   z_array, metadata_table, cov_table, do_cov, output_cov,
                   boot_pool, output_boot, started>>

\* An end of the main loop that does not wait for every task: it goes on
\* as soon as one task has ended.
JoinAggregateEarly ==
    /\ pc = "aggregate"
    /\ \E j \in DOMAIN agg : agg[j].st \in {"done", "raised"}
    /\ pc' = IF error # "none" THEN "failed"
             ELSE IF do_cov.cov THEN "cov"
             ELSE IF do_cov.boot THEN "boot_draw" ELSE "return"
    /\ output_cov' = [izbin \in 0 .. nbins_z - 1 |-> [done |-> FALSE, block |-> << >>]]
    /\ UNCHANGED <<cfg, files, snrfit_table, snrfit_file,
                   output_file, reads, p1d_table, z_array,
                   mean_p1d_table, metadata_table, cov_table, do_cov, agg,
                   boot_pool, output_boot, error, started>>

\* The end of the main loop with the exceptions of its tasks dropped.
JoinAggregateDroppingErrors ==
    /\ pc = "aggregate"
    /\ \A j \in DOMAIN agg : agg[j].st \in {"done", "raised"}
    /\ pc' = IF do_cov.cov THEN "cov"
             ELSE IF do_cov.boot THEN "boot_draw" ELSE "return"
    /\ output_cov' = [izbin \in 0 .. nbins_z - 1 |-> [done |-> FALSE, block |-> << >>]]
    /\ UNCHANGED <<cfg, files, snrfit_table, snrfit_file,
                   output_file, reads, p1d_table, z_array,
                   mean_p1d_table, metadata_table, cov_table, do_cov, agg,
                   boot_pool, output_boot, error, started>>

\* The main loop ends: the synchronous loop at the first exception or after
\* the last bin, pool.map once every task has ended (it then re-raises the
\* first exception).
JoinAggregate ==
    /\ pc = "aggregate"
    /\ IF Synchronous
       THEN \/ \E j \in DOMAIN agg : agg[j].st = "raised"
            \/ \A j \in DOMAIN agg : agg[j].st = "done"
       ELSE \A j \in DOMAIN agg : agg[j].st \in {"done", "raised"}
    /\ pc' = IF error # "none" THEN "failed"
             ELSE IF do_cov.cov THEN "cov"
             ELSE IF do_cov.boot THEN "boot_draw" ELSE "return"
    /\ output_cov' = [izbin \in 0 .. nbins_z - 1 |-> [done |-> FALSE, block |-> << >>]]
    /\ UNCHANGED <<cfg, files, snrfit_table, snrfit_file,
                   output_file, reads, p1d_table, z_array,
                   mean_p1d_table, metadata_table, cov_table, do_cov, agg,
                   boot_pool, output_boot, error, started>>

\* One task of the covariance loop: compute_cov for redshift bin izbin, in
\* one of the number_worker processes of the pool, which takes the tasks in
\* order and unpacks each [izbin, select_z, sub_forest_ids] (starmap). The
\* synchronous loop calls func(p) with the list as one argument, so its
\* first call raises a TypeError: compute_cov lacks its last two arguments.
CovTask(izbin) ==
    /\ pc = "cov"
    /\ ~output_cov[izbin].done
    /\ Cardinality({j \in DOMAIN output_cov : j < izbin /\ ~output_cov[j].done})
          < cfg.number_worker
    /\ IF Synchronous
       THEN /\ pc' = "failed"
            /\ error' = "TypeError"
            /\ UNCHANGED output_cov
       ELSE /\ output_cov' = [output_cov EXCEPT ![izbin] =
                  [done |-> TRUE,
                   block |-> compute_cov(p1d_table.rows, mean_p1d_table, cfg, n_chunks,
                                izbin,
                                SelectZ(p1d_table.rows, cfg.zbin_edges, izbin),
                                SubForestIds(p1d_table.rows, cfg.zbin_edges, izbin))]]
            /\ UNCHANGED <<pc, error>>
    /\ started' = started \cup {"covariance"}
    /\ UNCHANGED <<cfg, files, snrfit_table, snrfit_file,
                   output_file, reads, p1d_table, z_array,
                   mean_p1d_table, metadata_table, cov_table, do_cov, agg,
                   boot_pool, output_boot>>

\* The results of the covariance tasks are copied into cov_table, block
\* izbin into rows i_min .. i_max - 1.
CovMerge ==
    /\ pc = "cov"
    /\ \A izbin \in DOMAIN output_cov : output_cov[izbin].done
    /\ cov_table' = [cov_table EXCEPT !.rows =
          [i \in DOMAIN cov_table.rows |->
              LET b == output_cov[i \div (nbins_k * nbins_k)].block[i % (nbins_k * nbins_k)]
              IN [cov_table.rows[i] EXCEPT !.zbin = b.zbin,
                                           !.index_zbin = b.index_zbin,
                                           !.N = b.N,
                                           !.covariance = b.covariance]]]
    /\ pc' = IF do_cov.boot THEN "boot_draw" ELSE "return"
    /\ UNCHANGED <<cfg, files, snrfit_table, snrfit_file,
                   output_file, reads, p1d_table, z_array,
                   mean_p1d_table, metadata_table, do_cov, agg, output_cov,
                   boot_pool, output_boot, error, started>>

\* The caller draws, for the next redshift bin, number_bootstrap resamples
\* of the bin's sub_forest_ids: each as long as the list, with replacement.
\* astropy's bootstrap raises a ValueError when the list is empty ("neither
\* 'samples' nor 'bootnum' can be less than 1").
BootDraw ==
    /\ pc = "boot_draw"
    /\ LET izbin == Len(boot_pool) \div cfg.number_bootstrap
           ids   == SubForestIds(p1d_table.rows, cfg.zbin_edges, izbin)
       IN IF ids = << >>
          THEN /\ pc' = "failed"
               /\ error' = "ValueError"
               /\ UNCHANGED <<boot_pool, output_boot>>
          ELSE \E bootid \in [1 .. cfg.number_bootstrap -> [DOMAIN ids -> DOMAIN ids]] :
                 /\ boot_pool' = boot_pool \o
                       [iboot \in 1 .. cfg.number_bootstrap |->
                           [izbin |-> izbin,
                            ids |-> [i \in DOMAIN ids |-> ids[bootid[iboot][i]]]]]
                 /\ error' = error
                 /\ IF izbin + 1 = nbins_z
                    THEN /\ pc' = "boot"
                         /\ output_boot' =
                               [t \in 1 .. nbins_z * cfg.number_bootstrap |->
                                   [done |-> FALSE, block |-> << >>]]
                    ELSE UNCHANGED <<pc, output_boot>>
    /\ UNCHANGED <<cfg, files, snrfit_table, snrfit_file,
                   output_file, reads, p1d_table, z_array,
                   mean_p1d_table, metadata_table, cov_table, do_cov, agg,
                   output_cov, started>>

\* One task of the bootstrap loop: compute_cov on a resample, in the pool;
\* the synchronous loop raises a TypeError at its first call, as that of
\* the covariance does.
BootTask(t) ==
    /\ pc = "boot"
    /\ ~output_boot[t].done
    /\ Cardinality({j \in DOMAIN output_boot : j < t /\ ~output_boot[j].done})
          < cfg.number_worker
    /\ IF Synchronous
       THEN /\ pc' = "failed"
            /\ error' = "TypeError"
            /\ UNCHANGED output_boot
       ELSE /\ output_boot' = [output_boot EXCEPT ![t] =
                  [done |-> TRUE,
                   block |-> compute_cov(p1d_table.rows, mean_p1d_table, cfg, n_chunks,
                                boot_pool[t].izbin,
                                SelectZ(p1d_table.rows, cfg.zbin_edges,
                                        boot_pool[t].izbin),
                                boot_pool[t].ids)]]
            /\ UNCHANGED <<pc, error>>
    /\ started' = started \cup {"bootstrap"}
    /\ UNCHANGED <<cfg, files, snrfit_table, snrfit_file,
                   output_file, reads, p1d_table, z_array,
                   mean_p1d_table, metadata_table, cov_table, do_cov, agg,
                   output_cov, boot_pool>>

\* Mean and standard deviation over the number_bootstrap results of each
\* redshift bin: results izbin * number_bootstrap + iboot.
BootMerge ==
    /\ pc = "boot"
    /\ \A t \in DOMAIN output_boot : output_boot[t].done
    /\ cov_table' = [cov_table EXCEPT !.rows =
          [i \in DOMAIN cov_table.rows |->
              LET izbin == i \div (nbins_k * nbins_k)
                  vals  == [iboot \in 1 .. cfg.number_bootstrap |->
                              output_boot[izbin * cfg.number_bootstrap + iboot]
                                  .block[i % (nbins_k * nbins_k)].covariance]
              IN [cov_table.rows[i] EXCEPT !.boot_covariance = BootMean(vals),
                                           !.error_boot_covariance = BootVar(vals)]]]
    /\ pc' = "return"
    /\ UNCHANGED <<cfg, files, snrfit_table, snrfit_file,
                   output_file, reads, p1d_table, z_array,
                   mean_p1d_table, metadata_table, do_cov, agg, output_cov,
                   boot_pool, output_boot, error, started>>

\* compute_mean_pk1d saves snrfit_table when output_snrfit is given, and
\* returns its three tables.
Return ==
    /\ pc = "return"
    /\ snrfit_file' = IF cfg.output_snrfit
                      THEN [saved |-> TRUE, table |-> snrfit_table]
                      ELSE snrfit_file
    /\ pc' = IF cfg.entry = "run_postproc_pk1d" THEN "write" ELSE "returned"
    /\ UNCHANGED <<cfg, files, snrfit_table, output_file, reads, p1d_table, z_array,
                   mean_p1d_table, metadata_table, cov_table, do_cov, agg,
                   output_cov, boot_pool, output_boot, error, started>>

\* run_postproc_pk1d writes the tables to the output file.
WriteOutput ==
    /\ pc = "write"
    /\ output_file' = "new"
    /\ pc' = "done"
    /\ UNCHANGED <<cfg, files, snrfit_table, snrfit_file,
                   reads, p1d_table, z_array, mean_p1d_table,
                   metadata_table, cov_table, do_cov, agg, output_cov, boot_pool,
                   output_boot, error, started>>

ReadTasks == \E f \in DOMAIN files : ReadTask(f)
AggStarts == \E izbin \in DOMAIN agg : AggStart(izbin)
AggSteps  == \E izbin \in DOMAIN agg : AggStep(izbin)
CovTasks  == \E izbin \in DOMAIN output_cov : CovTask(izbin)
BootTasks == \E t \in DOMAIN output_boot : BootTask(t)

Next ==
    \/ CheckOutput
    \/ ReadTasks
    \/ MergeIngest
    \/ ComputeSetup
    \/ AggStarts
    \/ AggSteps
    \/ JoinAggregate
    \/ CovTasks
    \/ CovMerge
    \/ BootDraw
    \/ BootTasks
    \/ BootMerge
    \/ Return
    \/ WriteOutput

Spec == Init /\ [][Next]_vars

\* ================================================================ claims
\* compute_mean_pk1d has returned its tables.
TablesReturned == pc \in {"returned", "write", "done"}

\* The main loop is over: the tables were returned, or a task of it raised.
AggregationOver == TablesReturned \/ (pc = "failed" /\ agg # << >>)

Cells == (0 .. nbins_z - 1) \X (0 .. nbins_k - 1)

\* The row of cell c = <<izbin, ikbin>> in the returned mean table.
RowOf(c) == mean_p1d_table[(c[1] * nbins_k) + c[2]]

\* C1: the mean-statistics table that compute_mean_pk1d returns has exactly
\* nbins_z * nbins_k rows, and row izbin * nbins_k + ikbin is the row of cell
\* (izbin, ikbin): it carries the bin's index and centre and the number of
\* samples selected for that cell (0 for a redshift bin without chunk).
C1_OneRowPerCell ==
    TablesReturned =>
        /\ DOMAIN mean_p1d_table = 0 .. (nbins_z * nbins_k) - 1
        /\ \A c \in Cells :
             /\ RowOf(c).index_zbin = c[1]
             /\ RowOf(c).zbin = ZbinCenter(cfg.zbin_edges, c[1])
             /\ RowOf(c).N = IF n_chunks[c[1]] = 0 THEN 0
                             ELSE Cardinality(Select(p1d_table.rows, cfg, c[1], c[2]))

\* A returned table over several redshift bins with a populated cell in a
\* bin other than the first and an empty cell.
C1_Witness ==
    /\ TablesReturned
    /\ nbins_z > 1
    /\ \E c \in Cells : c[1] > 0 /\ RowOf(c).N > 0
    /\ \E c \in Cells : RowOf(c).N = 0

\* C2: in the returned table every cell with N == 0 has its row, with zbin
\* the centre of its redshift bin and index_zbin its index, and every
\* statistic of every tracked quantity NaN.
C2_EmptyCellsAreNaN ==
    TablesReturned =>
        \A c \in Cells :
            RowOf(c).N = 0 =>
                /\ RowOf(c).zbin = ZbinCenter(cfg.zbin_edges, c[1])
                /\ RowOf(c).index_zbin = c[1]
                /\ \A col \in p1d_table_cols : \A st \in StatsArray(cfg.nomedians) :
                       RowOf(c).stats[col][st] = NaN

\* A returned table with a redshift bin without chunk (other than the
\* first) and, in a bin with chunks, an empty cell beside a populated one.
C2_Witness ==
    /\ TablesReturned
    /\ \E izbin \in 1 .. nbins_z - 1 : n_chunks[izbin] = 0
    /\ \E c \in Cells, d \in Cells :
          /\ c[1] = d[1] /\ n_chunks[c[1]] > 0
          /\ RowOf(c).N = 0 /\ RowOf(d).N > 0

\* Half-open membership lo <= x < hi.
InHalfOpen(x, edges, i) == Edge(edges, i) <= x /\ x < Edge(edges, i + 1)

\* C3: without redshift weights, the samples counted in cell (i, j) are
\* those with zedge[i] <= z < zedge[i+1] and kedge[j] <= k < kedge[j+1].
C3_HalfOpenMembership ==
    (TablesReturned /\ ~cfg.apply_z_weights) =>
        \A c \in Cells :
            RowOf(c).N =
                Cardinality({r \in DOMAIN p1d_table.rows :
                    /\ InHalfOpen(p1d_table.rows[r].forest_z, cfg.zbin_edges, c[1])
                    /\ InHalfOpen(p1d_table.rows[r].k, cfg.kbin_edges, c[2])})

\* The blocks compute_cov has returned so far, of both pools.
CovBlocks ==
    {output_cov[i].block : i \in {j \in DOMAIN output_cov : output_cov[j].done}}
    \cup {output_boot[i].block : i \in {j \in DOMAIN output_boot : output_boot[j].done}}

\* C4: every block compute_cov returns is symmetric in the covariance and
\* in the pair count.
C4_CovarianceSymmetric ==
    \A b \in CovBlocks :
        \A j \in 0 .. nbins_k - 1 : \A j2 \in 0 .. nbins_k - 1 :
            /\ b[(nbins_k * j) + j2].covariance = b[(nbins_k * j2) + j].covariance
            /\ b[(nbins_k * j) + j2].N = b[(nbins_k * j2) + j].N

\* A returned block with pairs above the diagonal, and one for a bin whose
\* first loop accumulated pairs below the diagonal (rows out of k order).
C4_Witness ==
    /\ pc = "returned"
    /\ \E b \in CovBlocks : b[1].N > 0 /\ ~b[1].covariance.nan
    /\ \E izbin \in DOMAIN output_cov :
          /\ output_cov[izbin].done
          /\ AccCount(p1d_table.rows, cfg.kbin_edges,
                      SelectZ(p1d_table.rows, cfg.zbin_edges, izbin),
                      SubForestIds(p1d_table.rows, cfg.zbin_edges, izbin), 1, 0) > 0

\* The synchronous main loop, from cell (izbin, ikbin) on: the table it
\* leaves and the exception it stops at.
RECURSIVE SeqFill(_, _, _)
SeqFill(table, izbin, ikbin) ==
    IF izbin = nbins_z THEN [table |-> table, error |-> "none"]
    ELSE IF n_chunks[izbin] = 0
    THEN SeqFill(FillEmptyBin(table, izbin), izbin + 1, 0)
    ELSE IF ikbin = nbins_k THEN SeqFill(table, izbin + 1, 0)
    ELSE IF ZWeightsRaise(cfg) # "none"
    THEN [table |-> table, error |-> ZWeightsRaise(cfg)]
    ELSE LET index == CellIndex(nbins_k, izbin, ikbin)
             t2 == [table EXCEPT ![index] =
                       CellRow(p1d_table.rows, cfg, izbin, ikbin, table[index])]
             wr == WeightRaise(p1d_table.rows, cfg,
                               Select(p1d_table.rows, cfg, izbin, ikbin))
         IN IF wr # "none" THEN [table |-> t2, error |-> wr]
            ELSE SeqFill(t2, izbin, ikbin + 1)

\* The covariance table that the blocks of compute_cov, gathered in the
\* order of the tasks, give over the mean table `means` with the resamples
\* of boot_pool.
SeqCovTable(means) ==
    IF ~((cfg.compute_covariance \/ cfg.compute_bootstrap) /\ CovarianceAllowed)
    THEN NoCovTable
    ELSE [some |-> TRUE, has_boot |-> cfg.compute_bootstrap,
          rows |-> [i \in 0 .. (nbins_z * nbins_k * nbins_k) - 1 |->
             LET izbin == i \div (nbins_k * nbins_k)
                 e     == i % (nbins_k * nbins_k)
                 sel   == SelectZ(p1d_table.rows, cfg.zbin_edges, izbin)
                 plain == compute_cov(p1d_table.rows, means, cfg, n_chunks, izbin, sel,
                              SubForestIds(p1d_table.rows, cfg.zbin_edges, izbin))[e]
                 vals  == [iboot \in 1 .. cfg.number_bootstrap |->
                             compute_cov(p1d_table.rows, means, cfg, n_chunks, izbin, sel,
                                 boot_pool[izbin * cfg.number_bootstrap + iboot].ids)[e]
                                 .covariance]
             IN [zbin       |-> IF cfg.compute_covariance THEN plain.zbin ELSE 0,
                 index_zbin |-> IF cfg.compute_covariance THEN plain.index_zbin ELSE 0,
                 N          |-> IF cfg.compute_covariance THEN plain.N ELSE 0,
                 covariance |-> IF cfg.compute_covariance THEN plain.covariance
                                ELSE RInt(0),
                 boot_covariance |->
                     IF cfg.compute_bootstrap THEN BootMean(vals) ELSE RInt(0),
                 error_boot_covariance |->
                     IF cfg.compute_bootstrap THEN BootVar(vals) ELSE RInt(0)]]]

\* The resampler, which runs in the caller whatever the number of workers,
\* fails on a redshift bin without sub_forest_id.
ResamplerFails ==
    /\ cfg.compute_bootstrap /\ CovarianceAllowed
    /\ \E izbin \in 0 .. nbins_z - 1 :
          SubForestIds(p1d_table.rows, cfg.zbin_edges, izbin) = << >>

\* C5: whatever the number of workers (1 or more) and the order in which
\* the tasks run and end, compute_mean_pk1d ends in the same way on the
\* same inputs and resamples: with the exception of the main loop or of the
\* resampler, or else with the same returned mean-statistics, metadata and
\* covariance tables, those of the loops taken bin after bin.
C5_ParallelEqualsSynchronous ==
    AggregationOver =>
        LET ref == SeqFill([index \in 0 .. (nbins_z * nbins_k) - 1 |->
                               EmptyMeanRow(cfg.nomedians)], 0, 0)
        IN IF ref.error # "none"
           THEN pc = "failed" /\ error = ref.error
           ELSE IF ResamplerFails
           THEN pc = "failed" /\ error = "ValueError"
           ELSE /\ TablesReturned
                /\ mean_p1d_table = ref.table
                /\ \A izbin \in 0 .. nbins_z - 1 :
                      metadata_table[izbin].N_chunks
                          = NChunks(z_array, cfg.zbin_edges, izbin)
                /\ cov_table = SeqCovTable(ref.table)

\* A sample of a chunk with quality <= 1 is among the members of a cell the
\* main loop computes.
LowSnrContributes ==
    \E c \in Cells :
        /\ n_chunks[c[1]] > 0
        /\ \E r \in Select(p1d_table.rows, cfg, c[1], c[2]) :
              p1d_table.rows[r].forest_snr <= SnrOne

\* C6: with 'simple_snr', once the main loop is over the run has failed if
\* a chunk with quality <= 1 contributes to a cell, and it has failed with
\* the RuntimeError of the weights only if one does.
C6_SimpleSnrFailsOnLowQuality ==
    (AggregationOver /\ cfg.weight_method = "simple_snr") =>
        /\ LowSnrContributes => pc = "failed"
        /\ (pc = "failed" /\ error = "RuntimeError") => LowSnrContributes

\* The run failed with the RuntimeError on a chunk of quality exactly 1.
C6_Witness ==
    /\ pc = "failed" /\ error = "RuntimeError"
    /\ cfg.weight_method = "simple_snr"
    /\ \A r \in DOMAIN p1d_table.rows : p1d_table.rows[r].forest_snr >= SnrOne

\* The example: three chunks with k = [0.1, 0.2], redshift 2.0, quality 5,
\* Pk_raw = [1, 1], Pk_noise = [0, 0], cor_reso = [1, 1], unweighted, on
\* zedge = [1.5, 2.5], kedge = [0.05, 0.15, 0.25].
IsExample ==
    /\ files = <<Hdus(ExampleChunks, TRUE)>>
    /\ cfg.zbin_edges = ZGridExample
    /\ cfg.kbin_edges = KGrid
    /\ cfg.weight_method = "no_weights"
    /\ ~cfg.apply_z_weights

ValidWeightMethod == cfg.weight_method \in {"fit_snr", "simple_snr", "no_weights"}

\* C8: with a weight_method that is none of 'fit_snr', 'simple_snr' and
\* 'no_weights', compute_mean_pk1d never returns tables.
C8_UnknownMethodNeverReturns == ~ValidWeightMethod => ~TablesReturned

\* The run ended with one of the configuration errors.
ConfigurationErrorRaised ==
    /\ pc = "failed"
    /\ error = "ValueError"
    /\ \/ ~ValidWeightMethod
       \/ SnrcutMismatch(cfg.snrcut, cfg.zbins_snrcut)
       \/ (cfg.apply_z_weights /\ ZWeightsRaise(cfg) = "ValueError")

\* C9: when a run ends with a configuration error, no worker task of any
\* phase has been started.
C9_ConfigurationErrorsBeforeWorkers == ConfigurationErrorRaised => started = {}

\* Covariance or bootstrap was requested on a table without sub_forest_id,
\* and compute_mean_pk1d is past its test of the request.
RequestedWithoutId ==
    /\ (cfg.compute_covariance \/ cfg.compute_bootstrap)
    /\ agg # << >>
    /\ "sub_forest_id" \notin p1d_table.colnames

\* C10 as stated: such a run fails instead of returning tables.
C10_MissingIdFails == RequestedWithoutId => ~TablesReturned

\* C10 amended: such a run skips the covariance and the bootstrap: no task
\* of either is started, there is no covariance table, and the run fails
\* only if a task of the main loop raises.
C10_MissingIdSkipsCovariance ==
    RequestedWithoutId =>
        /\ ~cov_table.some
        /\ ~do_cov.cov /\ ~do_cov.boot
        /\ started \cap {"covariance", "bootstrap"} = {}
        /\ pc = "failed" => \E izbin \in DOMAIN agg : agg[izbin].st = "raised"

\* Such a run has returned its mean table, with a populated cell.
C10_Witness ==
    /\ RequestedWithoutId
    /\ pc = "returned"
    /\ \E c \in Cells : RowOf(c).N > 0

\* Covariance or bootstrap was requested on a table that has sub_forest_id,
\* together with a weighting by signal-to-noise or with redshift weights, and
\* compute_mean_pk1d is past its test of the request.
RequestedWithWeights ==
    /\ (cfg.compute_covariance \/ cfg.compute_bootstrap)
    /\ agg # << >>
    /\ "sub_forest_id" \in p1d_table.colnames
    /\ (cfg.weight_method # "no_weights" \/ cfg.apply_z_weights)

\* C11: covariance or bootstrap requested with a weighting other than
\* 'no_weights' or with redshift weights is skipped: from the end of the
\* setup on (so before any task of the main loop starts) both flags are off
\* and the covariance table is None, no covariance or bootstrap task ever
\* starts, the mean and metadata tables exist with their full grids, and the
\* run fails only if a task of the main loop raises.
C11_WeightedCovarianceSkipped ==
    RequestedWithWeights =>
        /\ ~cov_table.some
        /\ ~do_cov.cov /\ ~do_cov.boot
        /\ started \cap {"covariance", "bootstrap"} = {}
        /\ DOMAIN mean_p1d_table = 0 .. nbins_z * nbins_k - 1
        /\ DOMAIN metadata_table = 0 .. nbins_z - 1
        /\ pc \in {"aggregate", "return", "returned", "write", "done", "failed"}
        /\ pc = "failed" => \E izbin \in DOMAIN agg : agg[izbin].st = "raised"

\* Such a run has returned its mean table, with a populated cell.
C11_Witness ==
    /\ RequestedWithWeights
    /\ pc = "returned"
    /\ \E c \in Cells : RowOf(c).N > 0

\* The files whose read_pk1d task has ended.
FilesRead == {f \in DOMAIN files : reads[f].st = "done"}

\* The rows and the z_array entries a read emitted for the chunk of one HDU
\* (the chunks of a run have distinct identifiers).
RowsEmitted(f, hdu) ==
    Cardinality({r \in DOMAIN reads[f].res.rows :
                    reads[f].res.rows[r].sub_forest_id = <<hdu.LOS_ID, hdu.CHUNK_ID>>})

\* The threshold that applies to a chunk: the only one, or the one at the
\* first of the table redshifts nearest to the chunk's mean redshift.
ApplicableThreshold(hdu) ==
    IF Len(cfg.snrcut.val) = 1 THEN cfg.snrcut.val[1]
    ELSE LET zb == cfg.zbins_snrcut.val
             d(i) == IF zb[i] >= hdu.MEANZ THEN zb[i] - hdu.MEANZ ELSE hdu.MEANZ - zb[i]
             near == CHOOSE i \in DOMAIN zb :
                        /\ \A j \in DOMAIN zb : d(i) <= d(j)
                        /\ \A j \in DOMAIN zb : j < i => d(j) > d(i)
         IN cfg.snrcut.val[near]

BelowThreshold(hdu) == cfg.snrcut.some /\ hdu.MEANSNR < ApplicableThreshold(hdu)

\* Several thresholds with no redshift table or a table of another length.
ThresholdsWithoutTable ==
    /\ cfg.snrcut.some
    /\ Len(cfg.snrcut.val) > 1
    /\ (~cfg.zbins_snrcut.some \/ Len(cfg.zbins_snrcut.val) # Len(cfg.snrcut.val))

AllHavePk(f) == \A i \in DOMAIN files[f] : files[f][i].has_pk

\* A chunk with too much noise, below the top k edge, for its raw power.
TooNoisy(hdu) ==
    \E i \in DOMAIN hdu.rows :
        /\ hdu.rows[i].k < cfg.kbin_edges[Len(cfg.kbin_edges)]
        /\ hdu.rows[i].Pk_noise > NoiseFactor * hdu.rows[i].Pk_raw

\* The chunk-level part of C12: without the configuration error, a chunk
\* below its threshold emits nothing, and a chunk that is not too noisy emits
\* all its rows exactly when it is not below its threshold.
CutDropsBelowThreshold(f) ==
    (AllHavePk(f) /\ ~ThresholdsWithoutTable) =>
        /\ reads[f].res.raised = "none"
        /\ \A i \in DOMAIN files[f] :
              LET hdu == files[f][i]
              IN /\ BelowThreshold(hdu) => RowsEmitted(f, hdu) = 0
                 /\ (~TooNoisy(hdu) /\ ~BelowThreshold(hdu)) =>
                        RowsEmitted(f, hdu) = Len(hdu.rows)
        /\ Len(reads[f].res.z_array) =
              Cardinality({i \in DOMAIN files[f] :
                              ~BelowThreshold(files[f][i]) /\ ~TooNoisy(files[f][i])})

PkAbsentOrZero(hdu) ==
    ~hdu.has_pk \/ \A i \in DOMAIN hdu.rows : hdu.rows[i].Pk = 0

\* The (k, Pk) samples a read emitted for the chunk of one HDU.
SamplesEmitted(f, hdu) ==
    {<<reads[f].res.rows[r].k, reads[f].res.rows[r].Pk>> :
        r \in {q \in DOMAIN reads[f].res.rows :
                  reads[f].res.rows[q].sub_forest_id = <<hdu.LOS_ID, hdu.CHUNK_ID>>}}

\* C13: read_pk1d does not fail on a chunk without Pk column, and the Pk of
\* an ingested chunk is (Pk_raw - Pk_noise) / cor_reso when the supplied
\* column is absent or identically zero, and the supplied Pk otherwise.
C13_PkDerivedWhenAbsentOrZero ==
    \A f \in FilesRead :
        ~ThresholdsWithoutTable =>
            /\ reads[f].res.raised = "none"
            /\ \A i \in DOMAIN files[f] :
                  LET hdu == files[f][i]
                  IN (~TooNoisy(hdu) /\ ~BelowThreshold(hdu)) =>
                        SamplesEmitted(f, hdu) =
                            {<<hdu.rows[r].k,
                               IF PkAbsentOrZero(hdu)
                               THEN (hdu.rows[r].Pk_raw - hdu.rows[r].Pk_noise)
                                        \div hdu.rows[r].cor_reso
                               ELSE hdu.rows[r].Pk>> : r \in DOMAIN hdu.rows}

\* C14: in a read that raised nothing, a chunk that passed the quality cut
\* emits no row when one of its samples with k below the top edge of the k
\* grid has Pk_noise > 1000000 * Pk_raw, and all its rows otherwise; the
\* z_array has one entry per chunk that emitted its rows.
C14_NoisyChunkDiscarded ==
    \A f \in FilesRead :
        reads[f].res.raised = "none" =>
            /\ \A i \in DOMAIN files[f] :
                  LET hdu == files[f][i]
                  IN ~BelowThreshold(hdu) =>
                        RowsEmitted(f, hdu) = IF TooNoisy(hdu) THEN 0 ELSE Len(hdu.rows)
            /\ Len(reads[f].res.z_array) =
                  Cardinality({i \in DOMAIN files[f] :
                                  RowsEmitted(f, files[f][i]) > 0})

\* A read that discarded a noisy chunk and kept a chunk whose only sample
\* beyond the limit has its k on the top edge.
C14_Witness ==
    \E f \in FilesRead :
        /\ reads[f].res.raised = "none"
        /\ \E i, j \in DOMAIN files[f] :
              /\ TooNoisy(files[f][i]) /\ RowsEmitted(f, files[f][i]) = 0
              /\ files[f][j].rows = RowsNoisyAbove
              /\ RowsEmitted(f, files[f][j]) = Len(RowsNoisyAbove)

\* The output file exists, untouched by this run, and overwrite is false.
OutputInTheWay ==
    /\ cfg.entry = "run_postproc_pk1d"
    /\ output_file = "old"
    /\ ~cfg.overwrite

\* C15: while the existing output file is in the way, the run is at its
\* start or has failed with the RuntimeError, no file has been read and no
\* worker has started (so the run never gets to write, and the file stays
\* as it was); with overwrite true or no existing file the run goes on to
\* the ingestion: it fails only after tasks have started, and when it ends
\* the file is the one it wrote.
C15_ExistingOutputRefused ==
    /\ OutputInTheWay =>
          /\ pc \in {"start", "failed"}
          /\ pc = "failed" => error = "RuntimeError"
          /\ started = {}
          /\ \A f \in DOMAIN files : reads[f].st = "idle"
    /\ (cfg.entry = "run_postproc_pk1d" /\ ~OutputInTheWay) =>
          /\ pc = "failed" => "ingest" \in started
          /\ pc = "done" => output_file = "new"

\* The run was refused: it failed with the file still as it was.
C15_Witness == OutputInTheWay /\ pc = "failed" /\ error = "RuntimeError"

\* A task of the ingestion or of the main loop has raised.
TaskRaised ==
    \/ \E f \in DOMAIN files : reads[f].st = "done" /\ reads[f].res.raised # "none"
    \/ \E izbin \in DOMAIN agg : agg[izbin].st = "raised"

\* C16: in a run of run_postproc_pk1d in which a task has raised, the
\* caller is still in the phase of that task or has failed with an error:
\* it never returns tables, never gets to write, and the output file is not
\* written.
C16_FailedTaskNoOutput ==
    (cfg.entry = "run_postproc_pk1d" /\ TaskRaised) =>
        /\ pc \in {"ingest", "aggregate", "failed"}
        /\ pc = "failed" => error # "none"
        /\ output_file # "new"

\* A run that failed on a task of the main loop, after the ingestion and
\* other tasks of the main loop had ended well.
C16_Witness ==
    /\ cfg.entry = "run_postproc_pk1d"
    /\ pc = "failed"
    /\ \A f \in DOMAIN files : reads[f].st = "done" /\ reads[f].res.raised = "none"
    /\ \E i, j \in DOMAIN agg : agg[i].st = "raised" /\ agg[j].st = "done"

\* The table with its rows in the order perm.
Reordered(rows, perm) == [r \in DOMAIN rows |-> rows[perm[r]]]

\* The mean rows of the populated redshift bins and the covariance entries
\* are those the aggregator and compute_cov give on the table rows.
SameTablesFrom(rows) ==
    /\ \A c \in Cells :
          n_chunks[c[1]] > 0 =>
              CellRow(rows, cfg, c[1], c[2], RowOf(c)) = RowOf(c)
    /\ \A izbin \in 0 .. nbins_z - 1 :
          LET block == compute_cov(rows, mean_p1d_table, cfg, n_chunks, izbin,
                                   SelectZ(rows, cfg.zbin_edges, izbin),
                                   SubForestIds(rows, cfg.zbin_edges, izbin))
          IN \A index \in DOMAIN block :
                LET row == cov_table.rows[izbin * nbins_k * nbins_k + index]
                IN row.N = block[index].N /\ row.covariance = block[index].covariance

\* C17: the returned mean and covariance tables are the ones every
\* reordering of the rows of the ingested table gives.
C17_OrderIndependent ==
    (pc = "returned" /\ cov_table.some /\ cfg.compute_covariance) =>
        \A perm \in Permutations(DOMAIN p1d_table.rows) :
            SameTablesFrom(Reordered(p1d_table.rows, perm))

\* C18: in the returned mean table, a cell with at least one member whose
\* Pk is not NaN has a mean, a minimum, a maximum and a median of Pk that
\* are not NaN, under every weighting.
C18_NaNMembersExcluded ==
    TablesReturned =>
        \A c \in Cells :
            LET S == Select(p1d_table.rows, cfg, c[1], c[2])
            IN (n_chunks[c[1]] > 0 /\ \E r \in S : ~p1d_table.rows[r].Pk_nan) =>
                  \A st \in {"mean", "min", "max", "median"} :
                      ~RowOf(c).stats["Pk"][st].nan

\* The bootstrap was requested and compute_mean_pk1d kept it.
BootstrapKept == cov_table.some /\ do_cov.boot

\* The results of the tasks of redshift bin izbin: izbin * B + 1 .. + B
\* (the sequences are 1-based).
BootResults(izbin) ==
    [iboot \in 1 .. cfg.number_bootstrap |->
        output_boot[izbin * cfg.number_bootstrap + iboot]]

\* C19: with the bootstrap kept, the resampler never fails; once the
\* resamples are drawn there are number_bootstrap of them for every redshift
\* bin, each as long as the bin's list of sub_forest_ids and made of its
\* elements; each task returns compute_cov of its own bin and resample; and
\* the returned boot_covariance and error_boot_covariance of bin izbin are
\* the mean and the standard deviation (here its square) over the
\* number_bootstrap results of that bin.
C19_BootstrapPerBin ==
    BootstrapKept =>
        /\ pc = "failed" => \E izbin \in DOMAIN agg : agg[izbin].st = "raised"
        /\ pc \in {"boot", "return", "returned"} =>
              /\ Len(boot_pool) = nbins_z * cfg.number_bootstrap
              /\ \A t \in DOMAIN boot_pool :
                    LET izbin == (t - 1) \div cfg.number_bootstrap
                        ids   == SubForestIds(p1d_table.rows, cfg.zbin_edges, izbin)
                    IN /\ boot_pool[t].izbin = izbin
                       /\ Len(boot_pool[t].ids) = Len(ids)
                       /\ Range(boot_pool[t].ids) \subseteq Range(ids)
                       /\ output_boot[t].done =>
                             output_boot[t].block =
                                 compute_cov(p1d_table.rows, mean_p1d_table, cfg,
                                             n_chunks, izbin,
                                             SelectZ(p1d_table.rows, cfg.zbin_edges, izbin),
                                             boot_pool[t].ids)
        /\ pc \in {"return", "returned"} =>
              \A i \in DOMAIN cov_table.rows :
                  LET izbin == i \div (nbins_k * nbins_k)
                      vals  == [iboot \in 1 .. cfg.number_bootstrap |->
                                  BootResults(izbin)[iboot]
                                      .block[i % (nbins_k * nbins_k)].covariance]
                  IN /\ cov_table.rows[i].boot_covariance = BootMean(vals)
                     /\ cov_table.rows[i].error_boot_covariance = BootVar(vals)

\* The tasks of compute_cov that have ended, each with the redshift bin and
\* the grouping keys it was given and the block it returned.
CovResults ==
    {[izbin |-> izbin,
      ids   |-> SubForestIds(p1d_table.rows, cfg.zbin_edges, izbin),
      block |-> output_cov[izbin].block] :
        izbin \in {i \in DOMAIN output_cov : output_cov[i].done}}
    \cup
    {[izbin |-> boot_pool[t].izbin, ids |-> boot_pool[t].ids,
      block |-> output_boot[t].block] :
        t \in {u \in DOMAIN output_boot : output_boot[u].done}}

\* C20: in every block compute_cov returned for a redshift bin with chunks,
\* an entry (j, j') with pair count n > 0 and accumulated sum S (those of
\* the entry on or above the diagonal) satisfies
\* covariance * n = S / n - meanPk[i, j] * meanPk[i, j'], with the means of
\* the mean-statistics table, also when the keys are a resample.
C20_CovarianceDividedTwice ==
    \A res \in CovResults :
        n_chunks[res.izbin] > 0 =>
            \A j \in 0 .. nbins_k - 1 : \A j2 \in j .. nbins_k - 1 :
                LET sel == SelectZ(p1d_table.rows, cfg.zbin_edges, res.izbin)
                    n   == AccCount(p1d_table.rows, cfg.kbin_edges, sel, res.ids, j, j2)
                    S   == AccSum(p1d_table.rows, cfg.kbin_edges, sel, res.ids, j, j2)
                    m1  == RowOf(<<res.izbin, j>>).stats["Pk"]["mean"]
                    m2  == RowOf(<<res.izbin, j2>>).stats["Pk"]["mean"]
                IN n > 0 =>
                      \A e \in {nbins_k * j + j2, nbins_k * j2 + j} :
                          /\ res.block[e].N = n
                          /\ RMul(res.block[e].covariance, RInt(n))
                                = RSub(Rat(S, n), RMul(m1, m2))

\* A block returned for a resample that repeats one key of a bin with two,
\* with pairs in an entry whose estimate is not zero.
C20_Witness ==
    \E res \in CovResults :
        /\ Len(res.ids) = 2 /\ res.ids[1] = res.ids[2]
        /\ Len(SubForestIds(p1d_table.rows, cfg.zbin_edges, res.izbin)) = 2
        /\ \E e \in DOMAIN res.block :
              /\ res.block[e].N > 1
              /\ ~res.block[e].covariance.nan
              /\ res.block[e].covariance.num # 0

\* The tasks of the main loop that are in progress.
AggRunning == {j \in DOMAIN agg : agg[j].st = "running"}

\* C21: in a run of run_postproc_pk1d with ncpu = 1 every phase has a
\* single worker: the files are read one after the other, no two tasks of
\* the main loop are in progress at the same time, and a task of the main
\* loop or of the covariance starts only when the tasks before it have
\* ended.
C21_PoolOfOneIsSynchronous ==
    (cfg.entry = "run_postproc_pk1d" /\ cfg.ncpu = 1) =>
        /\ \A f \in DOMAIN reads : \A g \in DOMAIN reads :
              (g < f /\ reads[f].st = "done") => reads[g].st = "done"
        /\ Cardinality(AggRunning) <= 1
        /\ \A i \in DOMAIN agg : \A j \in DOMAIN agg :
              (i < j /\ agg[j].st # "idle") => agg[i].st \in {"done", "raised"}
        /\ \A i \in DOMAIN output_cov : \A j \in DOMAIN output_cov :
              (i < j /\ output_cov[j].done) => output_cov[i].done

\* Row index lies outside the rows izbin * nbins_k .. (izbin + 1) * nbins_k - 1.
OutsideRowsOf(izbin, index) ==
    index < izbin * nbins_k \/ index >= (izbin + 1) * nbins_k

\* C22: a step of the aggregation task of redshift bin izbin changes, in
\* the mean-statistics table and in the table of the fits, only rows
\* izbin * nbins_k .. (izbin + 1) * nbins_k - 1, and leaves the ingested
\* table and z_array as they were; so no two tasks write the same row.
C22_TaskWritesOwnRows ==
    [][\A izbin \in DOMAIN agg :
          (pc = "aggregate" /\ agg[izbin].st = "running" /\ agg'[izbin] # agg[izbin]) =>
              /\ \A index \in DOMAIN mean_p1d_table :
                    OutsideRowsOf(izbin, index) =>
                        mean_p1d_table'[index] = mean_p1d_table[index]
              /\ \A index \in DOMAIN snrfit_table :
                    OutsideRowsOf(izbin, index) =>
                        snrfit_table'[index] = snrfit_table[index]
              /\ DOMAIN mean_p1d_table' = DOMAIN mean_p1d_table
              /\ DOMAIN snrfit_table' = DOMAIN snrfit_table
              /\ p1d_table' = p1d_table
              /\ z_array' = z_array]_vars

\* Two aggregation tasks are in progress, and one of them has written a row
\* of the mean table and a row of the table of the fits.
C22_Witness ==
    /\ pc = "aggregate"
    /\ \E i \in DOMAIN agg, j \in DOMAIN agg :
          /\ i # j
          /\ agg[i].st = "running" /\ agg[j].st = "running"
          /\ agg[i].ikbin > 0
          /\ mean_p1d_table[i * nbins_k].N > 0
          /\ snrfit_table # << >>
          /\ snrfit_table[i * nbins_k] # ZeroSnrfitRow

\* The unordered pairs of rows of one sub-forest (a row with itself
\* included) that have one row in k bin a and the other in k bin b.
UnorderedPairs(rows, select_z, id, a, b) ==
    {pq \in select_z \X select_z :
        /\ rows[pq[1]].sub_forest_id = id
        /\ rows[pq[2]].sub_forest_id = id
        /\ pq[1] <= pq[2]
        /\ {KIndex(rows[pq[1]].k, cfg.kbin_edges),
            KIndex(rows[pq[2]].k, cfg.kbin_edges)} = {a, b}}

\* C23: in every block compute_cov returned for a redshift bin with chunks,
\* the pair count of entry (j, j') is the number of unordered pairs of
\* samples of a grouping key with one sample in k bin j and the other in
\* k bin j', summed over the keys, whatever the order of the rows.
C23_PairCountOfUnorderedPairs ==
    \A res \in CovResults :
        n_chunks[res.izbin] > 0 =>
            \A j \in 0 .. nbins_k - 1 : \A j2 \in 0 .. nbins_k - 1 :
                res.block[(nbins_k * j) + j2].N =
                    SumOver([i \in DOMAIN res.ids |->
                                Cardinality(UnorderedPairs(p1d_table.rows,
                                    SelectZ(p1d_table.rows, cfg.zbin_edges, res.izbin),
                                    res.ids[i], j, j2))],
                            DOMAIN res.ids)

\* C24: the block compute_cov returns for a redshift bin whose n_chunks is 0
\* has nbins_k * nbins_k entries, each with covariance NaN, pair count 0,
\* index_zbin the index of the bin and zbin its centre; and the merged
\* covariance table carries these entries in the rows of the bin.
C24_EmptyBinBlockIsNaN ==
    /\ \A res \in CovResults :
          n_chunks[res.izbin] = 0 =>
              /\ DOMAIN res.block = 0 .. (nbins_k * nbins_k) - 1
              /\ \A e \in DOMAIN res.block :
                    /\ res.block[e].covariance = NaN
                    /\ res.block[e].N = 0
                    /\ res.block[e].index_zbin = res.izbin
                    /\ res.block[e].zbin = ZbinCenter(cfg.zbin_edges, res.izbin)
    /\ (TablesReturned /\ cov_table.some /\ cfg.compute_covariance) =>
          \A izbin \in 0 .. nbins_z - 1 :
              n_chunks[izbin] = 0 =>
                  \A e \in 0 .. (nbins_k * nbins_k) - 1 :
                      LET row == cov_table.rows[(izbin * nbins_k * nbins_k) + e]
                      IN /\ row.covariance = NaN
                         /\ row.N = 0
                         /\ row.index_zbin = izbin
                         /\ row.zbin = ZbinCenter(cfg.zbin_edges, izbin)

\* A returned covariance table with a redshift bin without chunk (other
\* than the first) beside a bin with an estimate that is not NaN.
C24_Witness ==
    /\ TablesReturned /\ cov_table.some /\ cfg.compute_covariance
    /\ \E izbin \in 1 .. nbins_z - 1 : n_chunks[izbin] = 0
    /\ \E i \in DOMAIN cov_table.rows :
          cov_table.rows[i].N > 0 /\ ~cov_table.rows[i].covariance.nan

\* C25: with apply_z_weights, once the main loop is over, a grid whose bin
\* centres are not equally spaced has made the run fail with the ValueError
\* of the check, and a grid with equal spacing (a single bin included) has
\* not made the check raise anything.
C25_UniformGridChecked ==
    (cfg.apply_z_weights /\ AggregationOver) =>
        IF DeltaZAllClose(cfg.zbin_edges)
        THEN ~(pc = "failed" /\ error = "IndexError")
        ELSE pc = "failed" /\ error = "ValueError"

\* The members of cell c = <<izbin, ikbin>> under apply_z_weights: the
\* samples of the k bin whose redshift lies strictly inside the bin for the
\* first and the last bin, and between the centres of the two neighbouring
\* bins for an interior one.
ZWeightMembers(c) ==
    {r \in DOMAIN p1d_table.rows :
        /\ InBin(p1d_table.rows[r].k, cfg.kbin_edges, c[2])
        /\ IF c[1] = 0 \/ c[1] = nbins_z - 1
           THEN InBin(p1d_table.rows[r].forest_z, cfg.zbin_edges, c[1])
           ELSE /\ p1d_table.rows[r].forest_z > ZbinCenter(cfg.zbin_edges, c[1] - 1)
                /\ p1d_table.rows[r].forest_z < ZbinCenter(cfg.zbin_edges, c[1] + 1)}

\* The weight the base strategy gives row r.
BaseWeight(r) ==
    IF cfg.weight_method = "simple_snr"
    THEN SimpleSnrWeight(p1d_table.rows[r].forest_snr)
    ELSE IF cfg.weight_method = "fit_snr"
    THEN RDiv(RInt(1), fitfunc_variance_pk1d(p1d_table.rows[r].forest_snr, CurveFitCoef))
    ELSE RInt(1)

\* C26: with apply_z_weights, in the returned table the members of a cell
\* are the samples of ZWeightMembers, and the mean of Pk over a cell is the
\* average in which each member enters with the weight of the base strategy
\* times 1 - |z_chunk - z_bin_center| / delta_z.
C26_RedshiftFactorApplied ==
    (TablesReturned /\ cfg.apply_z_weights) =>
        \A c \in Cells :
            n_chunks[c[1]] > 0 =>
                LET S == ZWeightMembers(c)
                    w == [r \in S |->
                            RMul(BaseWeight(r),
                                 RSub(RInt(1),
                                      Rat(Abs(p1d_table.rows[r].forest_z
                                                - ZbinCenter(cfg.zbin_edges, c[1])),
                                          DeltaZ(cfg.zbin_edges, 0))))]
                IN /\ RowOf(c).N = Cardinality(S)
                   /\ (S # {} /\ \A r \in S : ~p1d_table.rows[r].Pk_nan) =>
                         RowOf(c).stats["Pk"]["mean"]
                            = WeightedMean([r \in S |-> p1d_table.rows[r].Pk], w, S)

\* C27: the file of the fits is saved only by a run under 'fit_snr', and a
\* row of the table of the fits is written only under 'fit_snr', for its
\* own cell, from the fit of column 'Pk' over the members of that cell.
C27_SnrFitOnlyUnderFitSnr ==
    /\ cfg.weight_method # "fit_snr" => ~snrfit_file.saved
    /\ \A index \in DOMAIN snrfit_table :
          snrfit_table[index] # ZeroSnrfitRow =>
              /\ cfg.weight_method = "fit_snr"
              /\ snrfit_table[index] =
                    SnrfitRow(p1d_table.rows, cfg, index \div nbins_k,
                              index % nbins_k, ZeroSnrfitRow)

\* The rows that the read tasks returned, stacked in the order of the files
\* (all tasks have ended).
IngestedRows ==
    LET kept == NotNone(reads, 1)
    IN Flatten([i \in DOMAIN kept |-> reads[kept[i]].res.rows])

\* C28: in a run of run_postproc_pk1d, once a task of the main loop has
\* started every file has been read and the ingested table has had its
\* unit conversion (when velunits is set); once a task of the covariance or
\* of the bootstrap has started every task of the main loop has ended
\* without exception; and once the output file is written the results of
\* every covariance and bootstrap task have been merged into cov_table.
C28_PhasesInOrder ==
    /\ (cfg.entry = "run_postproc_pk1d" /\ "aggregate" \in started) =>
          /\ \A f \in DOMAIN reads : reads[f].st = "done"
          /\ p1d_table.rows = IF cfg.velunits THEN ConvertTable(IngestedRows)
                              ELSE IngestedRows
    /\ (started \cap {"covariance", "bootstrap"} # {}) =>
          /\ agg # << >>
          /\ \A izbin \in DOMAIN agg : agg[izbin].st = "done"
    /\ "bootstrap" \in started =>
          (do_cov.cov => \A izbin \in DOMAIN output_cov : output_cov[izbin].done)
    /\ output_file = "new" =>
          /\ \A izbin \in DOMAIN agg : agg[izbin].st = "done"
          /\ do_cov.cov =>
                \A i \in DOMAIN cov_table.rows :
                    /\ output_cov[i \div (nbins_k * nbins_k)].done
                    /\ cov_table.rows[i].covariance =
                          output_cov[i \div (nbins_k * nbins_k)]
                              .block[i % (nbins_k * nbins_k)].covariance
          /\ do_cov.boot =>
                \A i \in DOMAIN cov_table.rows :
                    LET vals == [iboot \in 1 .. cfg.number_bootstrap |->
                                    BootResults(i \div (nbins_k * nbins_k))[iboot]
                                        .block[i % (nbins_k * nbins_k)].covariance]
                    IN /\ \A t \in DOMAIN output_boot : output_boot[t].done
                       /\ cov_table.rows[i].boot_covariance = BootMean(vals)

\* A run over two files with velunits, covariance and bootstrap has
\* written its output file.
C28_Witness ==
    /\ output_file = "new"
    /\ Len(files) > 1
    /\ cfg.velunits
    /\ do_cov.cov /\ do_cov.boot
    /\ started = {"ingest", "aggregate", "covariance", "bootstrap"}
    /\ \E i \in DOMAIN cov_table.rows : ~cov_table.rows[i].boot_covariance.nan

\* C29: in every block compute_cov returned for a redshift bin with chunks,
\* no entry was computed by the second loop from a pair count of zero: each
\* entry on or above the diagonal, which the loop divides by its pair count,
\* has a count that is not zero.
C29_NoDivisionByZeroCount ==
    \A res \in CovResults :
        n_chunks[res.izbin] > 0 =>
            \A j \in 0 .. nbins_k - 1 : \A j2 \in j .. nbins_k - 1 :
                AccCount(p1d_table.rows, cfg.kbin_edges,
                         SelectZ(p1d_table.rows, cfg.zbin_edges, res.izbin),
                         res.ids, j, j2) # 0

\* C30: whenever compute_mean_pk1d returns a covariance table, row
\* i * nbins_k * nbins_k + e of it has index_zbin i, the centre of redshift
\* bin i as zbin, and the covariance and the pair count that compute_cov
\* gives for entry e of bin i; also when only the bootstrap was requested.
C30_CovRowsCarryOwnEntry ==
    (TablesReturned /\ cov_table.some) =>
        \A i \in DOMAIN cov_table.rows :
            LET izbin == i \div (nbins_k * nbins_k)
                est   == compute_cov(p1d_table.rows, mean_p1d_table, cfg, n_chunks, izbin,
                             SelectZ(p1d_table.rows, cfg.zbin_edges, izbin),
                             SubForestIds(p1d_table.rows, cfg.zbin_edges, izbin))
                             [i % (nbins_k * nbins_k)]
            IN /\ cov_table.rows[i].index_zbin = izbin
               /\ cov_table.rows[i].zbin = ZbinCenter(cfg.zbin_edges, izbin)
               /\ cov_table.rows[i].covariance = est.covariance
               /\ cov_table.rows[i].N = est.N

====
